---- MODULE Spec2Model ----
(***************************************************************************)
(* Universal log analyzer: the ingest API (src/api/main.py) and the        *)
(* anomaly detection cycle (src/scripts/anomaly_detector.py).              *)
(*                                                                         *)
(* The API runs in one uvicorn process (main.py:1268).  Every handler is   *)
(* an `async def` whose body holds no await after `await file.read()`, so  *)
(* one handler runs at a time; pc is the position of that handler.         *)
(* Storage calls (pymongo) either take effect or raise; the choice is the  *)
(* environment's.                                                          *)
(***************************************************************************)
EXTENDS Integers, Sequences, FiniteSets, TLC

\* ---------------------------------------------------------------- bounds
NumSkeletons == 2    \* distinct message skeletons a client sends
MaxTs        == 2    \* timestamps 1..MaxTs (parsed from a line or supplied)
MaxLines     == 2    \* lines of an uploaded file / entries of a fluent-bit batch
MaxRequests  == 2    \* requests handled in one behaviour
MaxRestarts  == 1    \* process restarts in one behaviour
MaxFaults    == 1    \* storage calls and miner calls that fail in one behaviour
MaxAnoms     == 1    \* anomalies one strategy returns
NumHandlers  == 2    \* requests in flight at once
MaxTokens    == 2    \* words of a message
MaxCycles    == 1    \* detection cycles that get their window in one behaviour
MaxNetTokens == 3    \* words of a message given to extract_network_info
MaxBuckets   == 24   \* hour buckets of the window the volume strategy is given
MaxHours     == 3    \* hours with records in the window of the error-rate strategy
BucketSize   == 6    \* records of each such hour
MaxTemplates == 21   \* template ids among the records of the window
WindowHours  == 4    \* wall-clock hours of the window of the source strategy
NumSources   == 2    \* sources that log into the window

Messages   == 1..NumSkeletons
Timestamps == 1..MaxTs

Nil == [kind |-> "nil"]

\* A line of an uploaded file: blank, or text carrying a message and the
\* timestamp parse_enhanced_log_line gives its entry.
BlankLine == [blank |-> TRUE, msg |-> 0, ts |-> 0]
TextLines == [blank : {FALSE}, msg : Messages, ts : Timestamps]
Lines     == {BlankLine} \cup TextLines

VARIABLES
    logs,            \* db.logs: the records, in insertion order
    templates,       \* db.templates: template_id -> row
    files,           \* db.files: file_id -> manifest
    template_miner,  \* the module-level miner: None, or its clusters
    pc,              \* position of the running handler
    req,             \* the running handler's locals
    result,          \* what the finished handler gave its caller
    nreq,            \* requests started
    restarts,        \* restarts so far
    faults,          \* failed storage and miner calls so far
    snap,            \* history: logs and templates when the handler started
    statusLog,       \* history: file_id -> statuses written to its manifest
    outcomes,        \* history: what happened to each line of the request
    trace,           \* history: miner verdicts and inserts of the request, in order
    issued,          \* history: cluster id -> skeletons add_log_message gave it to
    anomalies,       \* db.anomalies, in insertion order
    dpc,             \* position of the detection cycle
    df,              \* run_detection's df: whether the window holds records
    didx,            \* index of the strategy to run next
    all_anomalies,   \* run_detection's all_anomalies
    sidx,            \* index of the anomaly to store next
    cycles,          \* detection cycles that got their window
    dfaults,         \* failed storage calls of the detector so far
    ran,             \* history: strategies called this cycle, with their outcome
    attempted,       \* history: anomalies handed to store_anomaly this cycle
    handlers,        \* in-flight requests: handler -> its coroutine's position and locals
    onLoop,          \* the handlers whose code is being executed
    inCall,          \* the handlers inside template_miner.add_log_message
    pline,           \* parse_enhanced_log_line: the line it is given
    pentry,          \* parse_enhanced_log_line: what it returned
    lmsg,            \* extract_log_level: the message it is given
    llevel,          \* extract_log_level: what it returned
    ncall,           \* extract_network_info: its message and what it returned
    scall            \* a detection strategy: its window and what it returned

apiVars == <<logs, templates, files, template_miner, pc, req, result, nreq,
             restarts, faults, snap, statusLog, outcomes, trace, issued>>
detVars == <<anomalies, dpc, df, didx, all_anomalies, sidx, cycles, dfaults, ran,
             attempted>>
concVars == <<handlers, onLoop, inCall>>
parseVars == <<pline, pentry, lmsg, llevel, ncall, scall>>
vars    == <<apiVars, detVars, concVars, parseVars>>

\* ------------------------------------------------------- template ids
ClusterId(n)  == [kind |-> "cluster",  n |-> n]
FallbackId(m) == [kind |-> "fallback", n |-> m]   \* f"fallback_{md5(message)[:8]}"
TmplId(m)     == [kind |-> "tmpl",     n |-> m]   \* f"tmpl_{md5(message)[:8]}"
ErrorId(m)    == [kind |-> "error",    n |-> m]   \* f"error_{md5(message)[:8]}"

\* ------------------------------------------------------------ the miner
NoMiner    == [up |-> FALSE, clusters |-> <<>>]
FreshMiner == [up |-> TRUE,  clusters |-> <<>>]

\* TemplateMiner.add_log_message: the cluster of the message's skeleton gains
\* one member, or a new cluster gets the next id.
MinerAdd(miner, m) ==
    LET cs == miner.clusters
        hit == {i \in 1..Len(cs) : cs[i].skel = m}
    IN  IF hit # {}
        THEN LET i == CHOOSE i \in hit : TRUE
             IN  [miner   |-> [miner EXCEPT !.clusters[i].size = @ + 1],
                  verdict |-> [template_id  |-> ClusterId(i),
                               template     |-> cs[i].skel,
                               cluster_size |-> cs[i].size + 1]]
        ELSE [miner   |-> [miner EXCEPT !.clusters = Append(cs, [skel |-> m, size |-> 1])],
              verdict |-> [template_id  |-> ClusterId(Len(cs) + 1),
                           template     |-> m,
                           cluster_size |-> 1]]

MinerOutcomes == {"ok", "raise", "noid"}

\* Lines 429-451: the miner gave no id; take the cluster of the largest id,
\* else a tmpl_ pseudo-template.
NoIdVerdict(miner, m) ==
    LET cs == miner.clusters
    IN  IF Len(cs) > 0
        THEN [template_id  |-> ClusterId(Len(cs)),
              template     |-> cs[Len(cs)].skel,
              cluster_size |-> cs[Len(cs)].size]
        ELSE [template_id |-> TmplId(m), template |-> m, cluster_size |-> 1]

PseudoVerdict(id, m) == [template_id |-> id, template |-> m, cluster_size |-> 1]

\* templates_collection.update_one(..., upsert=True) of lines 458-473, when
\* the store applies it.
UpsertTemplate(tpl, v, ts) ==
    LET tid == v.template_id
    IN  IF tid \in DOMAIN tpl
        THEN [tpl EXCEPT ![tid] = [@ EXCEPT !.template     = v.template,
                                            !.last_seen    = ts,
                                            !.cluster_size = v.cluster_size,
                                            !.count        = @ + 1]]
        ELSE tpl @@ (tid :> [template     |-> v.template,
                             last_seen    |-> ts,
                             cluster_size |-> v.cluster_size,
                             first_seen   |-> ts,
                             count        |-> 0 + 1])

\* Variant of ProcessLog without the try of line 390: an exception of
\* add_log_message leaves the function and no verdict is returned.
ProcessLogNoCatch(miner, tpl, m, ts, mo, upsertOk) ==
    IF ~miner.up
    THEN [miner |-> miner, templates |-> tpl, path |-> "uninit", raised |-> FALSE,
          verdict |-> PseudoVerdict(FallbackId(m), m)]
    ELSE IF mo = "raise"
    THEN [miner |-> miner, templates |-> tpl, path |-> "raise", raised |-> TRUE,
          verdict |-> [template_id |-> Nil, template |-> Nil, cluster_size |-> 0]]
    ELSE LET add == MinerAdd(miner, m)
             m2  == IF mo = "ok" THEN add.miner ELSE miner
             v   == IF mo = "ok" THEN add.verdict ELSE NoIdVerdict(miner, m)
         IN  [miner     |-> m2,
              templates |-> IF upsertOk THEN UpsertTemplate(tpl, v, ts) ELSE tpl,
              path      |-> mo,
              raised    |-> FALSE,
              verdict   |-> v]

\* process_log_with_enhanced_parsing(message, timestamp): mo is what
\* add_log_message does, upsertOk whether update_one takes effect (its
\* exception is swallowed at line 474).  raised tells whether an exception
\* leaves the function: the try of line 390 catches them all.
ProcessLog(miner, tpl, m, ts, mo, upsertOk) ==
    IF ~miner.up
    THEN [miner |-> miner, templates |-> tpl, path |-> "uninit", raised |-> FALSE,
          verdict |-> PseudoVerdict(FallbackId(m), m)]
    ELSE IF mo = "raise"
    THEN [miner |-> miner, templates |-> tpl, path |-> "raise", raised |-> FALSE,
          verdict |-> PseudoVerdict(ErrorId(m), m)]
    ELSE LET add == MinerAdd(miner, m)
             m2  == IF mo = "ok" THEN add.miner ELSE miner
             v   == IF mo = "ok" THEN add.verdict ELSE NoIdVerdict(miner, m)
         IN  [miner     |-> m2,
              templates |-> IF upsertOk THEN UpsertTemplate(tpl, v, ts) ELSE tpl,
              path      |-> mo,
              raised    |-> FALSE,
              verdict   |-> v]

\* datetime.now(timezone.utc) of line 610, the instant of ingestion.  The
\* instants of the model are counted from it in steps longer than any skew
\* a deployment would allow: a larger instant lies in the future beyond it.
IngestedAt == 1

\* The document of store_enhanced_log_entry (lines 596-611).
LogDoc(entry, v, file_id) ==
    [timestamp   |-> entry.ts,
     created_at  |-> IngestedAt,
     message     |-> entry.msg,
     template_id |-> v.template_id,
     template    |-> v.template,
     file_id     |-> file_id]

\* --------------------------------------------------------------- Init
Pending   == [kind |-> "pending"]
Handlers  == 1..NumHandlers
NoHandler == [kind |-> "none", st |-> "new", left |-> 0, entry |-> BlankLine,
              verdict |-> Nil]

NoReq == [kind |-> "none", file_id |-> 0, decodable |-> TRUE, nlines |-> 0,
          idx |-> 0, pos |-> 0, processed_count |-> 0, failed_count |-> 0,
          entry |-> BlankLine, verdict |-> Nil, path |-> "none", cause |-> "none",
          cancelled |-> FALSE, cancel_at |-> 0]
NoSnap == [logs |-> <<>>, templates |-> <<>>]

Init ==
    /\ logs = <<>>
    /\ templates = <<>>
    /\ files = <<>>
    /\ template_miner \in {NoMiner, FreshMiner}
    /\ pc = "idle"
    /\ req = NoReq
    /\ result = "none"
    /\ nreq = 0
    /\ restarts = 0
    /\ faults = 0
    /\ snap = NoSnap
    /\ statusLog = <<>>
    /\ outcomes = <<>>
    /\ trace = <<>>
    /\ issued = <<>>
    /\ anomalies = <<>>
    /\ dpc = "idle"
    /\ df = "none"
    /\ didx = 0
    /\ all_anomalies = <<>>
    /\ sidx = 0
    /\ cycles = 0
    /\ dfaults = 0
    /\ ran = <<>>
    /\ attempted = <<>>
    /\ handlers = [h \in Handlers |-> NoHandler]
    /\ onLoop = {}
    /\ inCall = {}
    /\ pline = [kind |-> "none"]
    /\ pentry = Pending
    /\ lmsg = <<>>
    /\ llevel = "pending"
    /\ ncall = [st |-> "pending"]
    /\ scall = [st |-> "pending"]

\* A storage or miner call fails only while the behaviour's budget lasts.
Fault(n) == faults + n <= MaxFaults /\ faults' = faults + n

\* A handler starts: the event loop runs one at a time.
Begin(r, nextpc, res) ==
    /\ pc = "idle"
    /\ nreq < MaxRequests
    /\ nreq' = nreq + 1
    /\ req' = r
    /\ pc' = nextpc
    /\ result' = res
    /\ snap' = [logs |-> logs, templates |-> templates]
    /\ UNCHANGED <<logs, templates, files, template_miner, restarts, faults, statusLog,
                   outcomes, trace, issued>>
    /\ UNCHANGED <<detVars, concVars, parseVars>>

\* ------------------------------------------------- POST /api/logs/upload
\* Lines 622-623: the extension check, before the try.
StartUpload ==
    \E ext_ok \in BOOLEAN, decodable \in BOOLEAN :
        /\ ~ext_ok => decodable
        /\ Begin([NoReq EXCEPT !.kind = "upload", !.file_id = nreq + 1,
                               !.decodable = decodable],
                 IF ext_ok THEN "u_manifest" ELSE "done",
                 IF ext_ok THEN "none" ELSE "error400")

Manifest(processed, failed, status) ==
    [status |-> status, processed_logs |-> processed, failed_logs |-> failed]

\* Lines 646-656: files_collection.insert_one(file_doc).
UploadCreateManifest ==
    /\ pc = "u_manifest"
    /\ \E ok \in BOOLEAN :
        /\ Fault(IF ok THEN 0 ELSE 1)
        /\ IF ok
           THEN /\ files' = files @@ (req.file_id :> Manifest(0, 0, "processing"))
                /\ statusLog' = statusLog @@ (req.file_id :> <<"processing">>)
                /\ pc' = "u_decode"
                /\ req' = req
           ELSE /\ pc' = "u_except"
                /\ req' = [req EXCEPT !.cause = "manifest"]
                /\ UNCHANGED <<files, statusLog>>
    /\ UNCHANGED <<logs, templates, template_miner, result, nreq, restarts, snap,
                   outcomes, trace, issued>>
    /\ UNCHANGED <<detVars, concVars, parseVars>>

\* Lines 660-661 and 676-677: content.decode('utf-8'), then
\* text_content.strip().split('\n'), which gives at least one line.  The
\* HTTPException(400) raised for a UnicodeDecodeError is caught by the except
\* of line 701.
UploadDecode ==
    /\ pc = "u_decode"
    /\ IF req.decodable
       THEN \E n \in 1..MaxLines :
                pc' = "u_line" /\ req' = [req EXCEPT !.idx = 1, !.nlines = n]
       ELSE pc' = "u_except" /\ req' = [req EXCEPT !.cause = "decode"]
    /\ UNCHANGED <<logs, templates, files, template_miner, result, nreq, restarts,
                   faults, snap, statusLog, outcomes, trace, issued>>
    /\ UNCHANGED <<detVars, concVars, parseVars>>

\* Variant of LinePos: the loop walks the file backwards.
LinePosReversed(n, k) == n - k + 1

\* `for line in lines` (line 663): the file position of the k-th iteration.
LinePos(n, k) == k

\* Variant of ParseLine without the test of line 491: a blank line gets an
\* entry like any other.
ParseLineKeepsBlank(line) == line

\* parse_enhanced_log_line as the upload loop sees it (lines 491-492, 577-590):
\* no entry for a blank line, an entry for every other line.
ParseLine(line) == IF line.blank THEN Nil ELSE line

\* Variant of LineFailed without the except of line 670: a raise inside the
\* loop of an upload reaches the except of line 701.
LineFailedAborts(r) ==
    IF r.kind = "ingest"
    THEN [pc |-> "done", result |-> "error500", req |-> r]
    ELSE [pc |-> IF r.kind = "upload" THEN "u_except" ELSE "f_line",
          result |-> "none",
          req |-> IF r.kind = "upload" THEN r
                  ELSE [r EXCEPT !.failed_count = @ + 1, !.idx = @ + 1]]

\* The except of line 670 (upload), 1015 (fluent-bit), 981 (single ingest):
\* what a raise inside the per-line try leads to.
LineFailed(r) ==
    IF r.kind = "ingest"
    THEN [pc |-> "done", result |-> "error500", req |-> r]
    ELSE [pc |-> IF r.kind = "upload" THEN "u_line" ELSE "f_line",
          result |-> "none",
          req |-> [r EXCEPT !.failed_count = @ + 1, !.idx = @ + 1]]

\* Variant of LineStored without the increment of line 669.
LineStoredUncounted(r) ==
    IF r.kind = "ingest"
    THEN [pc |-> "done", result |-> "ok", req |-> r]
    ELSE [pc |-> IF r.kind = "upload" THEN "u_line" ELSE "f_line",
          result |-> "none",
          req |-> [r EXCEPT !.idx = @ + 1]]

\* Lines 669, 975-980, 1013: the line was stored.
LineStored(r) ==
    IF r.kind = "ingest"
    THEN [pc |-> "done", result |-> "ok", req |-> r]
    ELSE [pc |-> IF r.kind = "upload" THEN "u_line" ELSE "f_line",
          result |-> "none",
          req |-> [r EXCEPT !.processed_count = @ + 1, !.idx = @ + 1]]

\* text_content.strip().split('\n') (line 661): the text starts and ends
\* with a character that is no whitespace, so of n lines only an inner one
\* can be blank; the empty text gives the one line ''.
CanBeBlank(n, pos) == n = 1 \/ (1 < pos /\ pos < n)

\* Lines 663-665, 673-674: the next line of the file (its content is read
\* when the loop reaches it).
UploadLine ==
    /\ pc = "u_line"
    /\ IF req.idx > req.nlines
       THEN /\ pc' = "u_complete"
            /\ UNCHANGED <<req, outcomes>>
       ELSE \E line \in Lines :
            LET pos   == LinePos(req.nlines, req.idx)
                entry == ParseLine(line)
            IN  /\ line.blank => CanBeBlank(req.nlines, pos)
                /\ IF entry = Nil
                   THEN /\ pc' = "u_line"
                        /\ req' = [req EXCEPT !.failed_count = @ + 1, !.idx = @ + 1,
                                              !.pos = pos]
                        /\ outcomes' = Append(outcomes,
                               [pos |-> pos, parsed |-> FALSE, path |-> "none",
                                tid |-> Nil, stored |-> FALSE])
                   ELSE /\ pc' = "process"
                        /\ req' = [req EXCEPT !.entry = entry, !.pos = pos]
                        /\ UNCHANGED outcomes
    /\ UNCHANGED <<logs, templates, files, template_miner, result, nreq, restarts,
                   faults, snap, statusLog, trace, issued>>
    /\ UNCHANGED <<detVars, concVars, parseVars>>

Issue(iss, tid, m) ==
    IF tid \in DOMAIN iss THEN [iss EXCEPT ![tid] = @ \cup {m}] ELSE iss @@ (tid :> {m})

\* Lines 667, 962, 1011: process_log_with_enhanced_parsing on the entry.
Process ==
    /\ pc = "process"
    /\ \E mo \in MinerOutcomes, upsertOk \in BOOLEAN :
        LET p == ProcessLog(template_miner, templates, req.entry.msg, req.entry.ts,
                            mo, upsertOk)
        IN  /\ ~template_miner.up => (mo = "ok" /\ upsertOk)
            /\ mo = "raise" => upsertOk
            /\ Fault((IF mo = "ok" THEN 0 ELSE 1) + (IF upsertOk THEN 0 ELSE 1))
            /\ template_miner' = p.miner
            /\ templates' = p.templates
            /\ issued' = IF p.path = "ok"
                         THEN Issue(issued, p.verdict.template_id, req.entry.msg)
                         ELSE issued
            /\ IF p.raised
               THEN /\ pc' = LineFailed(req).pc
                    /\ result' = LineFailed(req).result
                    /\ req' = LineFailed(req).req
                    /\ trace' = trace
                    /\ outcomes' = Append(outcomes,
                           [pos |-> req.pos, parsed |-> TRUE, path |-> p.path,
                            tid |-> Nil, stored |-> FALSE])
               ELSE /\ pc' = "store"
                    /\ result' = result
                    /\ req' = [req EXCEPT !.verdict = p.verdict, !.path = p.path]
                    /\ trace' = Append(trace, [ev |-> "verdict", pos |-> req.pos])
                    /\ outcomes' = outcomes
    /\ UNCHANGED <<logs, files, nreq, restarts, snap, statusLog>>
    /\ UNCHANGED <<detVars, concVars, parseVars>>

\* Lines 668, 973, 1012: store_enhanced_log_entry; insert_one takes effect or
\* raises (lines 613-617).
Store ==
    /\ pc = "store"
    /\ \E ok \in BOOLEAN :
        LET next == IF ok THEN LineStored(req) ELSE LineFailed(req)
        IN  /\ Fault(IF ok THEN 0 ELSE 1)
            /\ logs' = IF ok
                       THEN Append(logs, LogDoc(req.entry, req.verdict, req.file_id))
                       ELSE logs
            /\ trace' = IF ok THEN Append(trace, [ev |-> "insert", pos |-> req.pos])
                        ELSE trace
            /\ outcomes' = Append(outcomes,
                   [pos |-> req.pos, parsed |-> TRUE, path |-> req.path,
                    tid |-> req.verdict.template_id, stored |-> ok])
            /\ pc' = next.pc
            /\ result' = next.result
            /\ req' = next.req
    /\ UNCHANGED <<templates, files, template_miner, nreq, restarts, snap, statusLog,
                   issued>>
    /\ UNCHANGED <<detVars, concVars, parseVars>>

\* Lines 680-699: the final update of the manifest, then the response.
UploadComplete ==
    /\ pc = "u_complete"
    /\ \E ok \in BOOLEAN :
        /\ Fault(IF ok THEN 0 ELSE 1)
        /\ IF ok
           THEN /\ files' = [files EXCEPT ![req.file_id] =
                               Manifest(req.processed_count, req.failed_count, "completed")]
                /\ statusLog' = [statusLog EXCEPT ![req.file_id] = Append(@, "completed")]
                /\ pc' = "done"
                /\ result' = "ok"
                /\ req' = req
           ELSE /\ pc' = "u_except"
                /\ req' = [req EXCEPT !.cause = "complete"]
                /\ UNCHANGED <<files, statusLog, result>>
    /\ UNCHANGED <<logs, templates, template_miner, nreq, restarts, snap, outcomes,
                   trace, issued>>
    /\ UNCHANGED <<detVars, concVars, parseVars>>

\* Lines 701-709: mark the manifest failed (update_one without upsert: a
\* missing manifest stays missing), then raise HTTPException(500).  When this
\* update_one raises, its exception leaves the handler instead.
UploadExcept ==
    /\ pc = "u_except"
    /\ \E ok \in BOOLEAN :
        /\ Fault(IF ok THEN 0 ELSE 1)
        /\ IF ok /\ req.file_id \in DOMAIN files
           THEN /\ files' = [files EXCEPT ![req.file_id].status = "failed"]
                /\ statusLog' = [statusLog EXCEPT ![req.file_id] = Append(@, "failed")]
           ELSE UNCHANGED <<files, statusLog>>
    /\ pc' = "done"
    /\ result' = "error500"
    /\ UNCHANGED <<logs, templates, template_miner, req, nreq, restarts, snap,
                   outcomes, trace, issued>>
    /\ UNCHANGED <<detVars, concVars, parseVars>>

\* The client of the running upload goes away (lines 625-709).  The handler
\* holds no disconnect check and no await after `await file.read()` (line
\* 626), so it only notices if the task is cancelled at that await: the
\* CancelledError is no Exception, passes the except of line 701 and leaves
\* the handler before the manifest exists.  Everywhere else the handler runs
\* on; cancel_at remembers how many lines were handled by then.
ClientCancel ==
    /\ req.kind = "upload"
    /\ pc \in {"u_manifest", "u_decode", "u_line", "process", "store", "u_complete"}
    /\ ~req.cancelled
    /\ req' = [req EXCEPT !.cancelled = TRUE, !.cancel_at = Len(outcomes)]
    /\ \E torn \in BOOLEAN :
        /\ torn => pc = "u_manifest"
        /\ pc' = IF torn THEN "done" ELSE pc
        /\ result' = IF torn THEN "cancelled" ELSE result
    /\ UNCHANGED <<logs, templates, files, template_miner, nreq, restarts, faults,
                   snap, statusLog, outcomes, trace, issued>>
    /\ UNCHANGED <<detVars, concVars, parseVars>>

\* ------------------------------------------------- POST /api/logs/ingest
StartIngest ==
    \E m \in Messages, ts \in Timestamps :
        Begin([NoReq EXCEPT !.kind = "ingest", !.pos = 1,
                            !.entry = [blank |-> FALSE, msg |-> m, ts |-> ts]],
              "process", "none")

\* -------------------------------------- POST /api/logs/ingest/fluent-bit
StartFluent ==
    \E n \in 0..MaxLines :
        Begin([NoReq EXCEPT !.kind = "fluent", !.nlines = n, !.idx = 1],
              "f_line", "none")

\* Lines 991, 1004-1009, 1020-1024: the next entry of the batch.
FluentLine ==
    /\ pc = "f_line"
    /\ IF req.idx > req.nlines
       THEN pc' = "done" /\ result' = "ok" /\ req' = req
       ELSE \E line \in TextLines :
                /\ pc' = "process"
                /\ result' = result
                /\ req' = [req EXCEPT !.entry = line,
                                      !.pos = LinePos(req.nlines, req.idx)]
    /\ UNCHANGED <<logs, templates, files, template_miner, nreq, restarts, faults,
                   snap, statusLog, outcomes, trace, issued>>
    /\ UNCHANGED <<detVars, concVars, parseVars>>

\* The response (or the error) reaches the caller; the handler's frame is gone.
Respond ==
    /\ pc = "done"
    /\ pc' = "idle"
    /\ req' = NoReq
    /\ result' = "none"
    /\ snap' = NoSnap
    /\ outcomes' = <<>>
    /\ trace' = <<>>
    /\ UNCHANGED <<logs, templates, files, template_miner, nreq, restarts, faults,
                   statusLog, issued>>
    /\ UNCHANGED <<detVars, concVars, parseVars>>

\* Lines 270-283: the process starts again.  TemplateMiner is built without a
\* persistence handler, so it starts empty; the database keeps its rows.
Restart ==
    /\ pc = "idle"
    /\ restarts < MaxRestarts
    /\ restarts' = restarts + 1
    /\ template_miner' \in {NoMiner, FreshMiner}
    /\ UNCHANGED <<logs, templates, files, pc, req, result, nreq, faults, snap,
                   statusLog, outcomes, trace, issued>>
    /\ UNCHANGED <<detVars, concVars, parseVars>>

Next ==
    \/ StartUpload \/ UploadCreateManifest \/ UploadDecode \/ UploadLine
    \/ Process \/ Store \/ UploadComplete \/ UploadExcept
    \/ StartIngest \/ StartFluent \/ FluentLine
    \/ ClientCancel \/ Respond \/ Restart

Spec == Init /\ [][Next]_vars

\* ------------------------------------------ the handlers as coroutines
\* Several requests are in flight; each handler is a coroutine of the one
\* event loop.  A coroutine keeps the loop until it awaits: upload_logs at
\* `await file.read()` (line 626) only, ingest_log and ingest_fluent_bit_logs
\* nowhere.  The pymongo calls and add_log_message are plain blocking calls.
\* Here add_log_message is a step of its own, from its start to its return.

\* Variant of LoopFree for handlers declared with `def`: each request runs
\* on a thread of the pool, whoever else is running.
LoopFreeThreaded(others) == TRUE

\* `async def` (lines 620, 959, 986) under uvicorn.run(app) (line 1266): a
\* handler's code runs only when no other handler's code is running.
LoopFree(others) == others = {}

SetHandler(h, r) == handlers' = [handlers EXCEPT ![h] = r]

\* A request arrives and its handler is scheduled.
Arrive(h) ==
    /\ handlers[h].st = "new"
    /\ \E k \in {"upload", "ingest", "fluent"}, n \in 0..MaxLines :
        /\ k = "ingest" => n = 1
        /\ k = "upload" => n >= 1
        /\ SetHandler(h, [handlers[h] EXCEPT !.kind = k, !.st = "ready", !.left = n])
    /\ UNCHANGED <<onLoop, inCall>>
    /\ UNCHANGED <<apiVars, detVars, parseVars>>

\* The loop starts the handler: upload_logs runs up to line 626, the other
\* two enter their body.
Enter(h) ==
    /\ handlers[h].st = "ready"
    /\ LoopFree(onLoop \ {h})
    /\ onLoop' = onLoop \cup {h}
    /\ SetHandler(h, [handlers[h] EXCEPT
                         !.st = IF handlers[h].kind = "upload" THEN "at_read" ELSE "loop"])
    /\ UNCHANGED inCall
    /\ UNCHANGED <<apiVars, detVars, parseVars>>

\* Line 626: `await file.read()` gives the loop away when the read has to
\* wait (a spooled file is read on a worker thread), else it goes straight on.
ReadAwait(h) ==
    /\ handlers[h].st = "at_read"
    /\ \E yields \in BOOLEAN :
        /\ SetHandler(h, [handlers[h] EXCEPT !.st = IF yields THEN "reading" ELSE "loop"])
        /\ onLoop' = IF yields THEN onLoop \ {h} ELSE onLoop
    /\ UNCHANGED inCall
    /\ UNCHANGED <<apiVars, detVars, parseVars>>

\* The read is over; the coroutine can be resumed.
ReadDone(h) ==
    /\ handlers[h].st = "reading"
    /\ SetHandler(h, [handlers[h] EXCEPT !.st = "resumable"])
    /\ UNCHANGED <<onLoop, inCall>>
    /\ UNCHANGED <<apiVars, detVars, parseVars>>

\* The loop resumes upload_logs after line 626.
Resume(h) ==
    /\ handlers[h].st = "resumable"
    /\ LoopFree(onLoop \ {h})
    /\ onLoop' = onLoop \cup {h}
    /\ SetHandler(h, [handlers[h] EXCEPT !.st = "loop"])
    /\ UNCHANGED inCall
    /\ UNCHANGED <<apiVars, detVars, parseVars>>

\* Lines 667, 962, 1011 down to line 408: the handler calls
\* process_log_with_enhanced_parsing, which enters add_log_message unless
\* the miner is None (lines 398-406).
CallStart(h) ==
    /\ handlers[h].st = "loop"
    /\ handlers[h].left > 0
    /\ \E line \in TextLines :
        IF template_miner.up
        THEN /\ SetHandler(h, [handlers[h] EXCEPT !.st = "incall", !.entry = line])
             /\ inCall' = inCall \cup {h}
        ELSE /\ SetHandler(h, [handlers[h] EXCEPT !.st = "store", !.entry = line,
                     !.verdict = ProcessLog(template_miner, templates, line.msg,
                                            line.ts, "ok", TRUE).verdict])
             /\ inCall' = inCall
    /\ UNCHANGED onLoop
    /\ UNCHANGED <<apiVars, detVars, parseVars>>

\* Lines 408-487: add_log_message returns or raises, then the upsert.
CallEnd(h) ==
    /\ handlers[h].st = "incall"
    /\ \E mo \in MinerOutcomes, upsertOk \in BOOLEAN :
        LET p == ProcessLog(template_miner, templates, handlers[h].entry.msg,
                            handlers[h].entry.ts, mo, upsertOk)
        IN  /\ mo = "raise" => upsertOk
            /\ Fault((IF mo = "ok" THEN 0 ELSE 1) + (IF upsertOk THEN 0 ELSE 1))
            /\ template_miner' = p.miner
            /\ templates' = p.templates
            /\ SetHandler(h, [handlers[h] EXCEPT !.st = "store", !.verdict = p.verdict])
    /\ inCall' = inCall \ {h}
    /\ UNCHANGED onLoop
    /\ UNCHANGED <<logs, files, pc, req, result, nreq, restarts, snap, statusLog,
                   outcomes, trace, issued>>
    /\ UNCHANGED <<detVars, parseVars>>

\* Lines 668, 973, 1012: store_enhanced_log_entry, then the next line.
StoreLine(h) ==
    /\ handlers[h].st = "store"
    /\ \E ok \in BOOLEAN :
        /\ Fault(IF ok THEN 0 ELSE 1)
        /\ logs' = IF ok
                   THEN Append(logs, LogDoc(handlers[h].entry, handlers[h].verdict,
                                            IF handlers[h].kind = "upload" THEN h ELSE 0))
                   ELSE logs
    /\ SetHandler(h, [handlers[h] EXCEPT !.st = "loop", !.left = @ - 1])
    /\ UNCHANGED <<onLoop, inCall>>
    /\ UNCHANGED <<templates, files, template_miner, pc, req, result, nreq, restarts,
                   snap, statusLog, outcomes, trace, issued>>
    /\ UNCHANGED <<detVars, parseVars>>

\* Lines 692-699, 975-980, 1020-1024: the handler returns and leaves the loop.
Finish(h) ==
    /\ handlers[h].st = "loop"
    /\ handlers[h].left = 0
    /\ SetHandler(h, [handlers[h] EXCEPT !.st = "finished"])
    /\ onLoop' = onLoop \ {h}
    /\ UNCHANGED inCall
    /\ UNCHANGED <<apiVars, detVars, parseVars>>

NextConc ==
    \E h \in Handlers :
        \/ Arrive(h) \/ Enter(h) \/ ReadAwait(h) \/ ReadDone(h) \/ Resume(h)
        \/ CallStart(h) \/ CallEnd(h) \/ StoreLine(h) \/ Finish(h)

SpecConc == Init /\ [][NextConc]_vars

\* ------------------------------------- anomaly_detector.py: run_detection
\* Line 449-456: the detectors list, in order.
Detectors == <<"Volume", "Error Rate", "New Templates", "Rare Templates", "ML-based",
               "Source">>

\* What one strategy call does: raise, or return a list of anomalies.  With
\* an empty window every strategy returns [] at once (lines 94, 138, 187, 239,
\* 303, 376); detect_ml_anomalies catches its own exceptions (lines 306, 367).
Returned(i, k) == [j \in 1..k |-> [anomaly_type |-> Detectors[i], n |-> j]]
StrategyOutcomes(i, window) ==
    IF window = "empty"
    THEN {[threw |-> FALSE, anomalies |-> <<>>]}
    ELSE {[threw |-> FALSE, anomalies |-> Returned(i, k)] : k \in 0..MaxAnoms}
         \cup (IF Detectors[i] = "ML-based" THEN {}
               ELSE {[threw |-> TRUE, anomalies |-> <<>>]})

\* Lines 440, 446: a cycle starts.
StartCycle ==
    /\ dpc = "idle"
    /\ cycles < MaxCycles
    /\ dpc' = "fetch"
    /\ all_anomalies' = <<>>
    /\ ran' = <<>>
    /\ attempted' = <<>>
    /\ UNCHANGED <<anomalies, df, didx, sidx, cycles, dfaults>>
    /\ UNCHANGED <<apiVars, concVars, parseVars>>

\* Line 443: get_recent_logs; the aggregate gives the window or raises, and
\* the exception leaves run_detection.
FetchWindow ==
    /\ dpc = "fetch"
    /\ \E w \in {"empty", "records", "raise"} :
        /\ w = "raise" => dfaults < MaxFaults
        /\ dfaults' = IF w = "raise" THEN dfaults + 1 ELSE dfaults
        /\ df' = w
        /\ dpc' = IF w = "raise" THEN "aborted" ELSE "strategies"
        /\ didx' = IF w = "raise" THEN didx ELSE 1
        /\ cycles' = IF w = "raise" THEN cycles ELSE cycles + 1
    /\ UNCHANGED <<anomalies, all_anomalies, sidx, ran, attempted>>
    /\ UNCHANGED <<apiVars, concVars, parseVars>>

\* Variant of StrategyThrew without the except of line 464: the exception
\* leaves run_detection.
StrategyThrewAborts(i) == [dpc |-> "aborted", didx |-> i]

\* Lines 464-465: the except of the detectors loop; the loop goes on with the
\* next strategy.
StrategyThrew(i) == [dpc |-> "strategies", didx |-> i + 1]

\* Lines 458-465: one iteration of the detectors loop.
RunStrategy ==
    /\ dpc = "strategies"
    /\ didx <= Len(Detectors)
    /\ \E o \in StrategyOutcomes(didx, df) :
        /\ ran' = Append(ran, [name |-> Detectors[didx], outcome |-> o])
        /\ IF o.threw
           THEN /\ dpc' = StrategyThrew(didx).dpc
                /\ didx' = StrategyThrew(didx).didx
                /\ all_anomalies' = all_anomalies
           ELSE /\ dpc' = "strategies"
                /\ didx' = didx + 1
                /\ all_anomalies' = all_anomalies \o o.anomalies
    /\ UNCHANGED <<anomalies, df, sidx, cycles, dfaults, attempted>>
    /\ UNCHANGED <<apiVars, concVars, parseVars>>

\* Line 468: the detectors loop is over; the store loop starts.
StrategiesDone ==
    /\ dpc = "strategies"
    /\ didx > Len(Detectors)
    /\ dpc' = "store"
    /\ sidx' = 1
    /\ UNCHANGED <<anomalies, df, didx, all_anomalies, cycles, dfaults, ran, attempted>>
    /\ UNCHANGED <<apiVars, concVars, parseVars>>

\* Lines 418-436, 468-469: store_anomaly on the next anomaly; insert_one
\* takes effect, or raises and the exception is logged.
StoreAnomaly ==
    /\ dpc = "store"
    /\ sidx <= Len(all_anomalies)
    /\ \E ok \in BOOLEAN :
        /\ ~ok => dfaults < MaxFaults
        /\ dfaults' = IF ok THEN dfaults ELSE dfaults + 1
        /\ anomalies' = IF ok THEN Append(anomalies, all_anomalies[sidx]) ELSE anomalies
    /\ attempted' = Append(attempted, all_anomalies[sidx])
    /\ sidx' = sidx + 1
    /\ UNCHANGED <<dpc, df, didx, all_anomalies, cycles, ran>>
    /\ UNCHANGED <<apiVars, concVars, parseVars>>

\* Lines 471-472: run_detection returns all_anomalies.
CycleReturn ==
    /\ dpc = "store"
    /\ sidx > Len(all_anomalies)
    /\ dpc' = "done"
    /\ UNCHANGED <<anomalies, df, didx, all_anomalies, sidx, cycles, dfaults, ran,
                   attempted>>
    /\ UNCHANGED <<apiVars, concVars, parseVars>>

\* The caller of run_detection has its result (or its exception).
CycleOver ==
    /\ dpc \in {"done", "aborted"}
    /\ dpc' = "idle"
    /\ df' = "none"
    /\ didx' = 0
    /\ sidx' = 0
    /\ UNCHANGED <<anomalies, all_anomalies, cycles, dfaults, ran, attempted>>
    /\ UNCHANGED <<apiVars, concVars, parseVars>>

NextDetect ==
    \/ StartCycle \/ FetchWindow \/ RunStrategy \/ StrategiesDone
    \/ StoreAnomaly \/ CycleReturn \/ CycleOver

SpecDetect == Init /\ [][NextDetect]_vars

\* ------------------------------------ anomaly_detector.py: main, --daemon
\* Lines 503-505: run_detection returned; log, sleep(interval), loop again.
DaemonCycleDone ==
    /\ dpc = "done"
    /\ dpc' = "idle"
    /\ UNCHANGED <<anomalies, df, didx, all_anomalies, sidx, cycles, dfaults, ran,
                   attempted>>
    /\ UNCHANGED <<apiVars, concVars, parseVars>>

\* Variant of DaemonCaught without the except of line 509: the exception of
\* run_detection leaves main and the process exits.
DaemonCaughtExits(from) == "exited"

\* Lines 509-511: `except Exception` logs, sleeps 60 s, and the `while True`
\* goes round again.
DaemonCaught(from) == "idle"

\* Lines 509-511: run_detection raised.
DaemonCycleFailed ==
    /\ dpc = "aborted"
    /\ dpc' = DaemonCaught(dpc)
    /\ UNCHANGED <<anomalies, df, didx, all_anomalies, sidx, cycles, dfaults, ran,
                   attempted>>
    /\ UNCHANGED <<apiVars, concVars, parseVars>>

\* Lines 506-508: KeyboardInterrupt ends the loop.
DaemonInterrupt ==
    /\ dpc \notin {"stopped", "exited"}
    /\ dpc' = "stopped"
    /\ UNCHANGED <<anomalies, df, didx, all_anomalies, sidx, cycles, dfaults, ran,
                   attempted>>
    /\ UNCHANGED <<apiVars, concVars, parseVars>>

DaemonRun ==
    \/ StartCycle \/ FetchWindow \/ RunStrategy \/ StrategiesDone
    \/ StoreAnomaly \/ CycleReturn \/ DaemonCycleDone \/ DaemonCycleFailed

NextDaemon == DaemonRun \/ DaemonInterrupt

\* The daemon is a running process: it takes its next step when it has one.
SpecDaemon == Init /\ [][NextDaemon]_vars /\ WF_vars(DaemonRun)

\* ------------------------------------------- main.py: extract_log_level
\* A message is a sequence of words.  The vocabulary holds a word of every
\* class of LEVEL_PATTERNS (one of them in lower case), syslog priorities,
\* words that hold a heuristic keyword only as a part, and a neutral word.
SeverityWords == {"PANIC", "ALERT", "FATAL", "ERROR", "FAIL", "NOTICE", "INFO", "TRACE",
                  "crit"}
PriorityWords == {"<13>", "<3>"}
KeywordWords  == {"EXCEPTION", "ALERTS", "DEBUGGING"}
Vocabulary    == SeverityWords \cup PriorityWords \cup KeywordWords \cup {"x"}
MessageTexts  == UNION {[1..n -> Vocabulary] : n \in 0..MaxTokens}

\* str.upper() and re.IGNORECASE, on the vocabulary.
Upper(w) ==
    IF w = "crit" THEN "CRIT"
    ELSE IF w = "info" THEN "INFO"
    ELSE IF w = "warn" THEN "WARN"
    ELSE IF w = "error" THEN "ERROR"
    ELSE w

\* int(severity_match.group(1)) of line 187.
PriorityValue(w) == IF w = "<13>" THEN 13 ELSE 3

\* Lines 96-104: the alternatives of each pattern, in list order.
LEVEL_PATTERNS ==
    << {"EMERGENCY", "EMERG", "PANIC"},
       {"ALERT"},
       {"CRITICAL", "CRIT", "FATAL"},
       {"ERROR", "ERR", "FAIL", "FAILED"},
       {"WARNING", "WARN", "NOTICE"},
       {"INFO", "INFORMATION"},
       {"DEBUG", "TRACE"} >>

\* Lines 106-114.
LEVEL_MAP ==
    [w \in UNION {LEVEL_PATTERNS[k] : k \in 1..7} |->
        IF w \in {"EMERGENCY", "EMERG", "PANIC"} THEN "EMERGENCY"
        ELSE IF w = "ALERT" THEN "ALERT"
        ELSE IF w \in {"CRITICAL", "CRIT", "FATAL"} THEN "CRITICAL"
        ELSE IF w \in {"ERROR", "ERR", "FAIL", "FAILED"} THEN "ERROR"
        ELSE IF w \in {"WARNING", "WARN", "NOTICE"} THEN "WARN"
        ELSE IF w \in {"INFO", "INFORMATION"} THEN "INFO"
        ELSE "DEBUG"]

\* Lines 188-189.
severity_map ==
    [n \in 0..7 |-> <<"EMERGENCY", "ALERT", "CRITICAL", "ERROR", "WARN", "NOTICE", "INFO",
                      "DEBUG">>[n + 1]]

\* The heuristic keywords of lines 194-198 that upper-cased word w holds.
KeywordsIn(w) ==
    IF Upper(w) \in {"ALERT", "ALERTS"} THEN {"ALERT"}
    ELSE IF Upper(w) = "ERROR" THEN {"ERROR"}
    ELSE IF Upper(w) = "WARN" THEN {"WARN"}
    ELSE IF Upper(w) = "DENY" THEN {"DENY"}
    ELSE IF Upper(w) = "FAIL" THEN {"FAIL"}
    ELSE IF Upper(w) = "EXCEPTION" THEN {"EXCEPTION"}
    ELSE IF Upper(w) = "DEBUGGING" THEN {"DEBUG"}
    ELSE IF Upper(w) = "TRACE" THEN {"TRACE"}
    ELSE {}

Least(S) == CHOOSE i \in S : \A j \in S : i <= j

\* re.search with \b...\b: the leftmost word of the message that is one of
\* the alternatives, 0 if there is none.
SearchWord(alternatives, message) ==
    LET hit == {i \in 1..Len(message) : Upper(message[i]) \in alternatives}
    IN  IF hit = {} THEN 0 ELSE Least(hit)

\* Variant of ExplicitLevel that scans the message instead of the patterns:
\* the leftmost severity word wins.
RECURSIVE ExplicitLevelLeftmost(_, _, _)
ExplicitLevelLeftmost(message, default_level, k) ==
    LET i == SearchWord(UNION {LEVEL_PATTERNS[j] : j \in 1..7}, message)
    IN  IF i = 0 THEN ""
        ELSE IF Upper(message[i]) \in DOMAIN LEVEL_MAP
        THEN LEVEL_MAP[Upper(message[i])] ELSE default_level

\* Lines 178-182: the loop over LEVEL_PATTERNS from pattern k on; "" when no
\* pattern matches.
RECURSIVE ExplicitLevel(_, _, _)
ExplicitLevel(message, default_level, k) ==
    IF k > Len(LEVEL_PATTERNS) THEN ""
    ELSE LET i == SearchWord(LEVEL_PATTERNS[k], message)
         IN  IF i # 0
             THEN IF Upper(message[i]) \in DOMAIN LEVEL_MAP
                  THEN LEVEL_MAP[Upper(message[i])] ELSE default_level
             ELSE ExplicitLevel(message, default_level, k + 1)

\* extract_log_level (lines 175-201).
extract_log_level(message, default_level) ==
    LET explicit == ExplicitLevel(message, default_level, 1)
        pri      == {i \in 1..Len(message) : message[i] \in PriorityWords}
        held     == UNION {KeywordsIn(message[i]) : i \in 1..Len(message)}
    IN  IF explicit # "" THEN explicit
        ELSE IF pri # {} THEN severity_map[PriorityValue(message[Least(pri)]) % 8]
        ELSE IF held \cap {"FAIL", "ERROR", "EXCEPTION", "CRASH"} # {} THEN "ERROR"
        ELSE IF held \cap {"WARN", "ALERT", "DENY", "BLOCK"} # {} THEN "WARN"
        ELSE IF held \cap {"DEBUG", "TRACE"} # {} THEN "DEBUG"
        ELSE default_level

\* extract_log_level is applied to a message, with the default of its
\* signature and of its call (line 570).
ExtractLevel ==
    /\ llevel = "pending"
    /\ \E m \in MessageTexts :
        /\ lmsg' = m
        /\ llevel' = extract_log_level(m, "INFO")
    /\ UNCHANGED <<apiVars, detVars, concVars, pline, pentry, ncall, scall>>

NextLevel == ExtractLevel

SpecLevel == Init /\ [][NextLevel]_vars

\* ----------------------------------------- main.py: extract_network_info
\* Values of the maps of an entry: a string, a non-string JSON value, Python's
\* None (a group that took no part in the match), or a missing key.
Str(v)  == [ty |-> "str", v |-> v]
Num(v)  == [ty |-> "num", v |-> v]
NoneVal == [ty |-> "none", v |-> ""]
Absent  == [ty |-> "absent", v |-> ""]

\* The words a line's message is made of: IPv4 addresses, port and protocol
\* mentions, a severity word and a neutral word.  None is a MAC address.
IpWords      == {"1.1.1.1", "2.2.2.2", "10.0.0.1"}
ParseWords   == {"x", "ERROR", "1.1.1.1", "2.2.2.2", "port=80", ":80", "port=0", "TCP",
                 "proto=6"}
ParseMessages == UNION {[1..n -> ParseWords] : n \in 0..MaxTokens}

InSeq(x, q) == \E i \in 1..Len(q) : q[i] = x

\* Lines 131-136: the digits the p-th port pattern takes from word w, "" if
\* it does not match.
PortHit(w, p) ==
    IF p = 1 THEN (IF w = "port=80" THEN "80" ELSE IF w = "port=0" THEN "0"
                   ELSE IF w = "port=65536" THEN "65536" ELSE "")
    ELSE IF p = 4 THEN (IF w = ":80" THEN "80" ELSE IF w = ":13" THEN "13"
                        ELSE IF w = ":55" THEN "55" ELSE IF w = ":36" THEN "36" ELSE "")
    ELSE ""

\* int(port) of line 144.
IntOf(digits) ==
    IF digits = "80" THEN 80 ELSE IF digits = "13" THEN 13 ELSE IF digits = "55" THEN 55
    ELSE IF digits = "36" THEN 36 ELSE IF digits = "6" THEN 6
    ELSE IF digits = "65536" THEN 65536 ELSE 0

\* Lines 139-145: pattern by pattern, match by match; a port is appended
\* when it is not yet in the list and lies in 1..65535.
RECURSIVE PortsFrom(_, _, _)
PortsFrom(message, n, ports) ==
    IF n > 4 * Len(message) THEN ports
    ELSE LET p    == ((n - 1) \div Len(message)) + 1
             i    == ((n - 1) % Len(message)) + 1
             port == PortHit(message[i], p)
         IN  PortsFrom(message, n + 1,
                 IF port # "" /\ ~InSeq(port, ports) /\ 1 <= IntOf(port)
                    /\ IntOf(port) <= 65535
                 THEN Append(ports, port) ELSE ports)

\* Lines 151-154: what the q-th protocol pattern takes from word w,
\* upper-cased (line 160).
ProtoHit(w, q) ==
    IF q = 1 THEN (IF w \in {"proto=6", "2.2.2.2PROTO=6"} THEN "6" ELSE "")
    ELSE IF w \in {"TCP", "HTTP"} THEN w ELSE ""

\* Lines 156-162.
RECURSIVE ProtocolsFrom(_, _, _)
ProtocolsFrom(message, n, protocols) ==
    IF n > 2 * Len(message) THEN protocols
    ELSE LET q     == ((n - 1) \div Len(message)) + 1
             i     == ((n - 1) % Len(message)) + 1
             proto == ProtoHit(message[i], q)
         IN  ProtocolsFrom(message, n + 1,
                 IF proto # "" /\ ~InSeq(proto, protocols)
                 THEN Append(protocols, proto) ELSE protocols)

EmptyMap == <<>>

\* Variant of extract_network_info with `if` for the `elif` of line 128: the
\* first address is emitted as ip_address whenever there is one.
extract_network_info_always_address(message) ==
    LET ips       == SelectSeq(message, LAMBDA w : w \in IpWords)
        ports     == PortsFrom(message, 1, <<>>)
        protocols == ProtocolsFrom(message, 1, <<>>)
        ip_part   == (IF Len(ips) >= 2
                      THEN ("src_ip" :> Str(ips[1])) @@ ("dst_ip" :> Str(ips[2]))
                      ELSE EmptyMap)
                     @@ (IF Len(ips) >= 1
                         THEN ("ip_addresses" :> ips) @@ ("ip_address" :> Str(ips[1]))
                         ELSE EmptyMap)
        port_part  == IF ports # <<>> THEN ("ports" :> ports) ELSE EmptyMap
        proto_part == IF protocols # <<>> THEN ("protocols" :> protocols) ELSE EmptyMap
    IN  ip_part @@ port_part @@ proto_part

\* extract_network_info (lines 116-173).
extract_network_info(message) ==
    LET ips       == SelectSeq(message, LAMBDA w : w \in IpWords)
        ports     == PortsFrom(message, 1, <<>>)
        protocols == ProtocolsFrom(message, 1, <<>>)
        ip_part   == IF Len(ips) >= 2
                     THEN ("ip_addresses" :> ips) @@ ("src_ip" :> Str(ips[1]))
                          @@ ("dst_ip" :> Str(ips[2]))
                     ELSE IF Len(ips) = 1
                     THEN ("ip_addresses" :> ips) @@ ("ip_address" :> Str(ips[1]))
                     ELSE EmptyMap
        port_part  == IF ports # <<>> THEN ("ports" :> ports) ELSE EmptyMap
        proto_part == IF protocols # <<>> THEN ("protocols" :> protocols) ELSE EmptyMap
    IN  ip_part @@ port_part @@ proto_part

\* extract_network_info is given a message.
NetWords    == ParseWords \cup {":13", "port=65536", "10.0.0.1"}
NetMessages == UNION {[1..n -> NetWords] : n \in 0..MaxNetTokens}

ExtractNetwork ==
    /\ ncall.st = "pending"
    /\ \E m \in NetMessages :
        ncall' = [st |-> "done", message |-> m, info |-> extract_network_info(m)]
    /\ UNCHANGED <<apiVars, detVars, concVars, pline, pentry, lmsg, llevel, scall>>

NextNet == ExtractNetwork

SpecNet == Init /\ [][NextNet]_vars

\* --------------------------------------------- main.py: the input lines
\* A line is blank, a JSON object, or text of one of these shapes (MSG stands
\* for the words of msg, a for the shape's parameter):
\*   syslog     Jan  1 00:00:00 host prog: MSG
\*   cisco      Jan  1 00:00:00.123 UTC: %LINK-a-UPDOWN: MSG
\*   cisco_tz   Jan  1 00:00:00 UTC %LINK-a-UPDOWN: MSG
\*   firewall   a SRC=1.1.1.1 DST=2.2.2.2 MSG
\*   fw_proto   a SRC=1.1.1.1 DST=2.2.2.2PROTO=6 MSG
\*   syslog_fw  Jan  1 00:00:00 host kernel: a SRC=1.1.1.1 DST=2.2.2.2 MSG
\*   access     a - bob [10/Oct/2000:13:55:36 -0700] "GET /x HTTP/1.0" 200 2326 "r" "ua" MSG
\*   windows    2024-01-01 00:00:00 a 12 src MSG
\*   docker     2024-01-01T00:00:00.000Z a abc123 MSG
\*   braces     {oops MSG}
\*   plain      MSG
ShapeParams(shape) ==
    IF shape \in {"cisco", "cisco_tz"} THEN {"3", "6"}
    ELSE IF shape \in {"firewall", "fw_proto", "syslog_fw"} THEN {"ACCEPT", "DENY"}
    ELSE IF shape = "access" THEN {"1.1.1.1", "myhost"}
    ELSE IF shape \in {"windows", "docker"} THEN {"INFO", "Error"}
    ELSE {""}

Shapes == {"syslog", "cisco", "cisco_tz", "firewall", "fw_proto", "syslog_fw", "access",
           "windows", "docker", "braces", "plain"}

LogLines ==
    {l \in [kind : {"text"}, shape : Shapes, a : {"3", "6", "ACCEPT", "DENY", "1.1.1.1",
                                                  "myhost", "INFO", "Error", ""},
            msg : ParseMessages] :
        /\ l.a \in ShapeParams(l.shape)
        /\ l.shape = "plain" => l.msg # <<>>}

\* The fields of a JSON object, each missing, a string or a non-string.
JsonObjects ==
    [message   : {[ty |-> "absent", v |-> <<>>], [ty |-> "num", v |-> <<>>]}
                 \cup {[ty |-> "str", v |-> m] : m \in ParseMessages},
     level     : {Absent, Str("info"), Str("warn"), Num("3")},
     severity  : {Absent, Str("error")},
     timestamp : {Absent, Str("2024-01-01T00:00:00Z"), Str("yesterday"), Num("12")},
     time      : {Absent, Str("2024-01-01T00:00:00Z")},
     protocol  : {Absent, Str("6"), Str("TCP"), Num("6")},
     src_ip    : {Absent, Str("10.0.0.1")}]

JsonKeys == {"message", "level", "severity", "timestamp", "time", "protocol", "src_ip"}

\* json_log itself: the keys the object has, with their values.
ObjectFields(obj) ==
    [k \in {k \in JsonKeys : obj[k].ty # "absent"} |-> obj[k]]

Word(cond, w) == IF cond THEN <<w>> ELSE <<>>

\* line.strip() as the extractors see it: the words of the raw line.
RawWords(line) ==
    IF line.kind = "json"
    THEN Word(line.obj.level.ty = "str", line.obj.level.v)
         \o Word(line.obj.severity.ty = "str", line.obj.severity.v)
         \o Word(line.obj.protocol = Str("TCP"), "TCP")
         \o Word(line.obj.src_ip.ty = "str", line.obj.src_ip.v)
         \o line.obj.message.v
    ELSE IF line.shape \in {"firewall", "syslog_fw"}
    THEN <<line.a, "1.1.1.1", "2.2.2.2">> \o line.msg
    ELSE IF line.shape = "fw_proto"
    THEN <<line.a, "1.1.1.1", "2.2.2.2PROTO=6">> \o line.msg
    ELSE IF line.shape = "access"
    THEN <<line.a, ":13", ":55", ":36", "HTTP">> \o line.msg
    ELSE line.msg

\* ------------------------------------------ main.py: parse_structured_log
\* Lines 55-87: the registry in the order of the dict, with what each entry
\* holds besides its pattern.
LOG_PATTERNS ==
    << [tag |-> "syslog",          timestamp_format |-> TRUE,  level_map |-> FALSE],
       [tag |-> "apache_access",   timestamp_format |-> TRUE,  level_map |-> FALSE],
       [tag |-> "nginx_access",    timestamp_format |-> TRUE,  level_map |-> FALSE],
       [tag |-> "firewall",        timestamp_format |-> FALSE, level_map |-> TRUE],
       [tag |-> "cisco_syslog",    timestamp_format |-> FALSE, level_map |-> TRUE],
       [tag |-> "windows_event",   timestamp_format |-> TRUE,  level_map |-> FALSE],
       [tag |-> "json_structured", timestamp_format |-> FALSE, level_map |-> FALSE],
       [tag |-> "docker",          timestamp_format |-> TRUE,  level_map |-> FALSE] >>

\* re.match(pattern, line): the registry entries whose pattern matches a
\* line of the shape.
MatchedBy(line) ==
    IF line.kind # "text" THEN {}
    ELSE IF line.shape = "syslog" THEN {"syslog"}
    ELSE IF line.shape = "cisco" THEN {"cisco_syslog"}
    ELSE IF line.shape = "cisco_tz" THEN {"syslog", "cisco_syslog"}
    ELSE IF line.shape \in {"firewall", "fw_proto"} THEN {"firewall"}
    ELSE IF line.shape = "syslog_fw" THEN {"syslog", "firewall"}
    ELSE IF line.shape = "access" THEN {"apache_access", "nginx_access"}
    ELSE IF line.shape = "windows" THEN {"windows_event"}
    ELSE IF line.shape = "docker" THEN {"docker"}
    ELSE IF line.shape = "braces" THEN {"json_structured"}
    ELSE {}

\* match.groupdict() of the entry's pattern on the line.
Captures(tag, line) ==
    IF tag = "syslog"
    THEN ("timestamp" :> Str("Jan  1 00:00:00"))
         @@ ("hostname" :> Str(IF line.shape = "cisco_tz" THEN "UTC" ELSE "host"))
         @@ ("program" :> Str(IF line.shape = "cisco_tz"
                              THEN (IF line.a = "3" THEN "%LINK-3-UPDOWN"
                                    ELSE "%LINK-6-UPDOWN")
                              ELSE IF line.shape = "syslog_fw" THEN "kernel" ELSE "prog"))
         @@ ("pid" :> NoneVal)
         @@ ("message" :> Str(IF line.shape = "syslog_fw" THEN RawWords(line)
                              ELSE line.msg))
    ELSE IF tag = "cisco_syslog"
    THEN ("timestamp" :> Str("Jan  1 00:00:00")) @@ ("timezone" :> Str("UTC"))
         @@ ("facility" :> Str("LINK")) @@ ("severity" :> Str(line.a))
         @@ ("mnemonic" :> Str("UPDOWN")) @@ ("message" :> Str(line.msg))
    ELSE IF tag = "firewall"
    THEN ("action" :> Str(line.a)) @@ ("src_ip" :> Str("1.1.1.1"))
         @@ ("dst_ip" :> Str("2.2.2.2")) @@ ("src_port" :> NoneVal)
         @@ ("dst_port" :> NoneVal)
         @@ ("protocol" :> IF line.shape = "fw_proto" THEN Str("6") ELSE NoneVal)
    ELSE IF tag \in {"apache_access", "nginx_access"}
    THEN ("remote_addr" :> Str(line.a)) @@ ("timestamp" :> Str("10/Oct/2000:13:55:36 -0700"))
         @@ ("method" :> Str("GET")) @@ ("url" :> Str("/x"))
         @@ ("protocol" :> Str("HTTP/1.0")) @@ ("status" :> Str("200"))
         @@ ("size" :> Str("2326")) @@ ("referer" :> Str("r"))
         @@ ("user_agent" :> Str("ua"))
    ELSE IF tag = "windows_event"
    THEN ("timestamp" :> Str("2024-01-01 00:00:00")) @@ ("level" :> Str(line.a))
         @@ ("event_id" :> Str("12")) @@ ("source" :> Str("src"))
         @@ ("message" :> Str(line.msg))
    ELSE IF tag = "docker"
    THEN ("timestamp" :> Str("2024-01-01T00:00:00.000Z")) @@ ("level" :> Str(line.a))
         @@ ("container_id" :> Str("abc123")) @@ ("message" :> Str(line.msg))
    ELSE EmptyMap

\* config['level_map'].get(key, 'INFO') of lines 226-230.
LevelMapGet(tag, key) ==
    IF tag = "firewall"
    THEN (IF key = "ACCEPT" THEN "INFO" ELSE IF key \in {"DENY", "DROP"} THEN "WARN"
          ELSE IF key = "REJECT" THEN "ERROR" ELSE "INFO")
    ELSE (IF key = "0" THEN "EMERGENCY" ELSE IF key = "1" THEN "ALERT"
          ELSE IF key = "2" THEN "CRITICAL" ELSE IF key = "3" THEN "ERROR"
          ELSE IF key = "4" THEN "WARN" ELSE IF key = "5" THEN "NOTICE"
          ELSE IF key = "6" THEN "INFO" ELSE IF key = "7" THEN "DEBUG" ELSE "INFO")

\* Lines 208-212: the first entry from the k-th on whose pattern matches,
\* 0 if none does.
RECURSIVE FirstMatch(_, _)
FirstMatch(line, k) ==
    IF k > Len(LOG_PATTERNS) THEN 0
    ELSE IF LOG_PATTERNS[k].tag \in MatchedBy(line) THEN k
    ELSE FirstMatch(line, k + 1)

\* parse_structured_log (lines 203-234).
parse_structured_log(line) ==
    LET k == FirstMatch(line, 1)
    IN  IF k = 0 THEN EmptyMap
        ELSE LET config == LOG_PATTERNS[k]
                 groups == Captures(config.tag, line)
                 parsed == IF "timestamp" \in DOMAIN groups /\ config.timestamp_format
                           THEN "parsed_timestamp" :> Str("parsed") ELSE EmptyMap
                 level  == IF ~config.level_map THEN EmptyMap
                           ELSE IF "severity" \in DOMAIN groups
                           THEN "level" :> Str(LevelMapGet(config.tag, groups["severity"].v))
                           ELSE IF "action" \in DOMAIN groups
                           THEN "level" :> Str(LevelMapGet(config.tag, groups["action"].v))
                           ELSE EmptyMap
             IN  level @@ parsed @@ ("log_type" :> Str(config.tag)) @@ groups

\* -------------------------------------- main.py: parse_enhanced_log_line
\* Lines 90-94.
PROTOCOL_MAP ==
    [n \in {"1", "6", "17", "47", "50", "51", "58", "89", "132"} |->
        IF n = "1" THEN "ICMP" ELSE IF n = "6" THEN "TCP" ELSE IF n = "17" THEN "UDP"
        ELSE IF n = "47" THEN "GRE" ELSE IF n = "50" THEN "ESP" ELSE IF n = "51" THEN "AH"
        ELSE IF n = "58" THEN "ICMPv6" ELSE IF n = "89" THEN "OSPF" ELSE "SCTP"]

\* str.isdigit() on the strings a protocol value takes here.
IsDigit(v) == v \in {"6"}

\* datetime.fromisoformat(ts_str.replace('Z', '+00:00')) succeeds.
IsIso(v) == v = "2024-01-01T00:00:00Z"

Restrict(f, keys) == [k \in DOMAIN f \cap keys |-> f[k]]
Without(f, keys)  == [k \in DOMAIN f \ keys |-> f[k]]

\* What lines 495-563 leave in the locals: of the JSON branch (lines
\* 503-535) for a JSON object, else of the registry branch (lines 537-562).
\* raised tells that an exception left the branch; message_is_str that
\* message is a string (a JSON message may be anything).
JsonBranch(line) ==
    LET json_log == ObjectFields(line.obj)
        lv       == IF "level" \in DOMAIN json_log THEN json_log["level"]
                    ELSE IF "severity" \in DOMAIN json_log THEN json_log["severity"]
                    ELSE Str("INFO")
        ts       == IF "timestamp" \in DOMAIN json_log THEN json_log["timestamp"]
                    ELSE IF "time" \in DOMAIN json_log THEN json_log["time"]
                    ELSE Absent
    IN  [raised         |-> lv.ty # "str" \/ (ts.ty = "str" /\ ~IsIso(ts.v)),
         log_type       |-> "json",
         parsed_fields  |-> json_log,
         message        |-> IF "message" \in DOMAIN json_log THEN json_log["message"].v
                            ELSE RawWords(line),
         message_is_str |-> ("message" \in DOMAIN json_log => json_log["message"].ty = "str"),
         level          |-> Upper(lv.v),
         timestamp      |-> IF ts.ty = "str" THEN "parsed" ELSE "now",
         network_info   |-> Restrict(json_log, {"src_ip", "dst_ip", "src_port", "dst_port",
                                                "protocol", "ip_address"}),
         metadata       |-> Without(json_log, {"message", "msg", "level", "severity",
                                               "timestamp", "time"})]

RegistryBranch(line) ==
    LET structured_data == parse_structured_log(line)
        network_fields  == {"src_ip", "dst_ip", "src_port", "dst_port", "protocol",
                            "remote_addr"}
        has(k)          == k \in DOMAIN structured_data
    IN  [raised         |-> FALSE,
         log_type       |-> IF structured_data = EmptyMap THEN "unknown"
                            ELSE structured_data["log_type"].v,
         parsed_fields  |-> structured_data,
         message        |-> IF has("message") THEN structured_data["message"].v
                            ELSE RawWords(line),
         message_is_str |-> TRUE,
         level          |-> IF has("level") THEN structured_data["level"].v ELSE "INFO",
         timestamp      |-> IF has("parsed_timestamp") THEN "parsed" ELSE "now",
         network_info   |-> Restrict(structured_data, network_fields \ {"remote_addr"})
                            @@ (IF has("remote_addr")
                                THEN "src_ip" :> structured_data["remote_addr"]
                                ELSE EmptyMap),
         metadata       |-> Without(structured_data,
                                    {"message", "level", "parsed_timestamp", "log_type"}
                                    \cup network_fields)]

\* Variant of DefaultEntry without the except of line 588: the exception
\* leaves parse_enhanced_log_line.
DefaultEntryRaises(line) == [kind |-> "raised"]

\* Lines 588-590: the entry of the except branch.
DefaultEntry(line) ==
    [kind |-> "entry", message |-> RawWords(line), raw_message |-> TRUE,
     level |-> "INFO", log_type |-> "None", timestamp |-> "now",
     network_info |-> EmptyMap, parsed_fields |-> EmptyMap, metadata |-> EmptyMap,
     defaulted |-> TRUE]

\* parse_enhanced_log_line (lines 489-590): b is what the branch left in the
\* locals, network the map after line 566.
parse_enhanced_log_line(line) ==
    LET finish(b, network) ==
            LET level     == IF b.level = "INFO" THEN extract_log_level(b.message, "INFO")
                             ELSE b.level
                bad_proto == "protocol" \in DOMAIN network /\ network["protocol"].ty # "str"
                mapped    == IF "protocol" \in DOMAIN network /\ IsDigit(network["protocol"].v)
                             THEN [network EXCEPT !["protocol"] =
                                      Str(IF @.v \in DOMAIN PROTOCOL_MAP THEN PROTOCOL_MAP[@.v]
                                          ELSE @.v)]
                             ELSE network
            IN  IF b.raised \/ ~b.message_is_str \/ bad_proto
                THEN DefaultEntry(line)
                ELSE [kind |-> "entry", message |-> b.message,
                      raw_message |-> (line.kind = "json" /\ line.obj.message.ty = "absent")
                                      \/ (line.kind = "text"
                                          /\ "message" \notin DOMAIN b.parsed_fields),
                      level |-> level, log_type |-> b.log_type, timestamp |-> b.timestamp,
                      network_info |-> mapped, parsed_fields |-> b.parsed_fields,
                      metadata |-> b.metadata, defaulted |-> FALSE]
        augment(b) == finish(b, extract_network_info(b.message) @@ b.network_info)
    IN  IF line.kind = "blank" THEN Nil
        ELSE augment(IF line.kind = "json" THEN JsonBranch(line) ELSE RegistryBranch(line))

\* parse_enhanced_log_line is given a JSON object on one line.
ParseJsonLine ==
    /\ pentry = Pending
    /\ \E obj \in JsonObjects :
        /\ pline' = [kind |-> "json", obj |-> obj]
        /\ pentry' = parse_enhanced_log_line([kind |-> "json", obj |-> obj])
    /\ UNCHANGED <<apiVars, detVars, concVars, lmsg, llevel, ncall, scall>>

\* parse_enhanced_log_line is given a line of text.
ParseTextLine ==
    /\ pentry = Pending
    /\ \E line \in LogLines :
        /\ pline' = line
        /\ pentry' = parse_enhanced_log_line(line)
    /\ UNCHANGED <<apiVars, detVars, concVars, lmsg, llevel, ncall, scall>>

\* parse_enhanced_log_line is given a blank line (lines 491-492).
ParseBlankLine ==
    /\ pentry = Pending
    /\ pline' = [kind |-> "blank"]
    /\ pentry' = parse_enhanced_log_line([kind |-> "blank"])
    /\ UNCHANGED <<apiVars, detVars, concVars, lmsg, llevel, ncall, scall>>

NextParse == ParseJsonLine \/ ParseTextLine \/ ParseBlankLine

SpecParse == Init /\ [][NextParse]_vars

\* ------------------------- anomaly_detector.py: the detection strategies
\* Each strategy is a function of df, the records of the window.

\* a * b for products beyond 2^31, as the pair <<quotient, remainder>> by
\* 2^15 (Python's numbers do not overflow).
Wide(a, b) ==
    LET K == 32768
    IN  <<(a \div K) * b + ((a % K) * b) \div K, ((a % K) * b) % K>>

WideGreater(x, y) == x[1] > y[1] \/ (x[1] = y[1] /\ x[2] > y[2])

RECURSIVE SumOver(_, _, _)
SumOver(counts, from, to) ==
    IF from > to THEN 0 ELSE counts[from] + SumOver(counts, from + 1, to)

RECURSIVE SumSquares(_, _, _)
SumSquares(counts, from, to) ==
    IF from > to THEN 0
    ELSE counts[from] * counts[from] + SumSquares(counts, from + 1, to)

\* Program constants of detect_volume_anomalies.
volume_spike_threshold == 3     \* config, line 56
volume_high_threshold  == 5     \* line 113
volume_min_buckets     == 3     \* line 100
volume_window_cap      == 24    \* line 104

\* Lines 105-109 for bucket i of df_hourly: rolling(window) gives NaN for the
\* first window - 1 buckets and else the mean and the sample standard
\* deviation of the window buckets that end with bucket i.  With S and Q the
\* sum and the sum of squares of the window, a = window * x - S and
\* b = window * Q - S * S, the score is z = a / sqrt(window * b / (window - 1))
\* (0 when the window is constant: the 1e-6 of line 109 keeps the division
\* defined), so |z| > t is a * a * (window - 1) > t * t * window * b.
ZScore(df_hourly, i) ==
    LET window == IF volume_window_cap < Len(df_hourly) - 1 THEN volume_window_cap
                  ELSE Len(df_hourly) - 1
        S      == SumOver(df_hourly, i - window + 1, i)
        Q      == SumSquares(df_hourly, i - window + 1, i)
        a      == window * df_hourly[i] - S
        b      == window * Q - S * S
        beyond(t) == WideGreater(Wide(a * a, window - 1), Wide(b, t * t * window))
    IN  IF i < window
        THEN [nan |-> TRUE, positive |-> FALSE, anomaly |-> FALSE, high |-> FALSE]
        ELSE [nan      |-> FALSE,
              positive |-> a > 0,
              anomaly  |-> beyond(volume_spike_threshold),
              high     |-> beyond(volume_high_threshold)]

\* Lines 111-130: the anomalies of buckets from..Len(df_hourly), in order.
RECURSIVE VolumeAnomalies(_, _)
VolumeAnomalies(df_hourly, from) ==
    IF from > Len(df_hourly) THEN <<>>
    ELSE LET z == ZScore(df_hourly, from)
         IN  (IF z.anomaly
              THEN << [anomaly_type |-> IF z.positive THEN "VOLUME_SPIKE" ELSE "VOLUME_DROP",
                       severity     |-> IF z.high THEN "HIGH" ELSE "MEDIUM",
                       bucket       |-> from,
                       log_count    |-> df_hourly[from]] >>
              ELSE <<>>)
             \o VolumeAnomalies(df_hourly, from + 1)

\* detect_volume_anomalies (lines 90-132) on df_hourly, the records per hour
\* from the hour of the first record to the hour of the last (line 98).
detect_volume_anomalies(df_hourly) ==
    IF Len(df_hourly) < volume_min_buckets THEN <<>>
    ELSE VolumeAnomalies(df_hourly, 1)

\* Windows of the volume strategy: n hours of 10 records each, but for
\* spike_at with 500 and low_at with 9 (0: no such hour).
VolumeWindows ==
    {w \in [n : 1..MaxBuckets, spike_at : 0..MaxBuckets, low_at : 0..MaxBuckets] :
        /\ w.spike_at <= w.n /\ w.low_at <= w.n
        /\ w.low_at # 0 => w.low_at # w.spike_at}

HourlyCounts(w) ==
    [i \in 1..w.n |-> IF i = w.spike_at THEN 500 ELSE IF i = w.low_at THEN 9 ELSE 10]

DetectVolume ==
    /\ scall.st = "pending"
    /\ \E w \in VolumeWindows :
        scall' = [st |-> "done", strategy |-> "Volume", window |-> w,
                  raised |-> FALSE,
                  anomalies |-> detect_volume_anomalies(HourlyCounts(w))]
    /\ UNCHANGED <<apiVars, detVars, concVars, pline, pentry, lmsg, llevel, ncall>>

\* Line 142.
error_levels == {"ERROR", "CRITICAL", "FATAL", "WARN"}

\* Lines 145-147: groupby([Grouper(freq='1H'), 'level']).size().unstack gives
\* one row for each hour that has records (an hour without records is not a
\* group) and one column for each level that occurs in the window.  A window
\* is the sequence of these rows; a row is how many of the hour's records
\* have one of the error levels and which of them (the other records are
\* INFO).  Every hour has BucketSize records, so that the 1e-6 of line 155
\* scales all rates alike and comparing rates is comparing error counts.
HourRows ==
    {r \in [errors : 0..BucketSize, kinds : SUBSET error_levels] :
        /\ r.errors = 0 <=> r.kinds = {}
        /\ Cardinality(r.kinds) <= r.errors}

ErrorWindows ==
    UNION {[1..n -> HourRows] : n \in 0..MaxHours}

LevelColumns(hours) ==
    UNION {hours[i].kinds : i \in 1..Len(hours)}
        \cup (IF \E i \in 1..Len(hours) : hours[i].errors < BucketSize
              THEN {"INFO"} ELSE {})

\* error_logs of line 154 for one row.
ErrorLogs(row) == row.errors

RECURSIVE ErrorLogsUpTo(_, _)
ErrorLogsUpTo(hours, n) ==
    IF n = 0 THEN 0 ELSE ErrorLogs(hours[n]) + ErrorLogsUpTo(hours, n - 1)

\* Lines 158-162 for row i: baseline_error_rate is the mean rate of all rows
\* but the last one (0 for a single row), the same for every row.
\* rate > 0.1 is 10 * errors > total, rate > 0.5 is 2 * errors > total.
RateAnomaly(hours, i) ==
    LET n      == Len(hours)
        errors == ErrorLogs(hours[i])
    IN  [anomaly  |-> /\ 10 * errors > BucketSize
                      /\ IF n > 1
                         THEN errors * (n - 1) > 2 * ErrorLogsUpTo(hours, n - 1)
                         ELSE errors > 0,
         critical |-> 2 * errors > BucketSize]

RECURSIVE RateAnomalies(_, _)
RateAnomalies(hours, from) ==
    IF from > Len(hours) THEN <<>>
    ELSE LET r == RateAnomaly(hours, from)
         IN  (IF r.anomaly
              THEN << [anomaly_type |-> "HIGH_ERROR_RATE",
                       severity     |-> IF r.critical THEN "CRITICAL" ELSE "HIGH",
                       bucket       |-> from,
                       log_count    |-> BucketSize] >>
              ELSE <<>>)
             \o RateAnomalies(hours, from + 1)

\* detect_error_rate_anomalies (lines 134-181).  df_hourly[error_levels]
\* of line 154 is evaluated when at least one of the four levels is a column
\* and raises KeyError when one of them is not.
detect_error_rate_anomalies(hours) ==
    LET columns == LevelColumns(hours)
    IN  IF hours = <<>> THEN [raised |-> FALSE, anomalies |-> <<>>]
        ELSE IF columns \cap error_levels # {} /\ ~(error_levels \subseteq columns)
        THEN [raised |-> TRUE, anomalies |-> <<>>]
        ELSE [raised |-> FALSE, anomalies |-> RateAnomalies(hours, 1)]

DetectErrorRate ==
    /\ scall.st = "pending"
    /\ \E w \in ErrorWindows :
        LET returned == detect_error_rate_anomalies(w)
        IN  scall' = [st |-> "done", strategy |-> "ErrorRate", window |-> w,
                      raised |-> returned.raised, anomalies |-> returned.anomalies]
    /\ UNCHANGED <<apiVars, detVars, concVars, pline, pentry, lmsg, llevel, ncall>>

\* Windows of the new-template strategy: the records carry `total`
\* template ids, of which `new` have their earliest record at or after
\* recent_cutoff (line 199; a record fetched at line 66 just before the
\* cutoff moved past it is older).  tz_aware: the MongoClient of line 42
\* returns timestamps with a time zone (tz_aware in mongodb_url; pymongo's
\* default is without).  int_ids: the ids of the new templates are integers
\* (cluster ids of the miner) and not the strings of the fallbacks.
TemplateWindows ==
    {w \in [total : 0..MaxTemplates, new : 0..MaxTemplates,
            tz_aware : BOOLEAN, int_ids : BOOLEAN] : w.new <= w.total}

\* detect_new_template_anomalies (lines 183-233).  Line 200 compares
\* first_seen with a datetime that has a time zone, which raises TypeError
\* for timestamps without one; int(tid) of line 221 raises ValueError for
\* an id that is not a number.  ratio > 0.05 is 20 * new > total,
\* ratio > 0.2 is 5 * new > total.
detect_new_template_anomalies(w) ==
    IF w.total = 0 THEN [raised |-> FALSE, anomalies |-> <<>>]
    ELSE IF ~w.tz_aware THEN [raised |-> TRUE, anomalies |-> <<>>]
    ELSE IF ~(20 * w.new > w.total) THEN [raised |-> FALSE, anomalies |-> <<>>]
    ELSE IF ~w.int_ids THEN [raised |-> TRUE, anomalies |-> <<>>]
    ELSE [raised    |-> FALSE,
          anomalies |-> << [anomaly_type |-> "NEW_TEMPLATE_SURGE",
                            severity     |-> IF 5 * w.new > w.total THEN "HIGH"
                                             ELSE "MEDIUM",
                            new_template_count   |-> w.new,
                            total_template_count |-> w.total] >>]

DetectNewTemplates ==
    /\ scall.st = "pending"
    /\ \E w \in TemplateWindows :
        LET returned == detect_new_template_anomalies(w)
        IN  scall' = [st |-> "done", strategy |-> "NewTemplates", window |-> w,
                      raised |-> returned.raised, anomalies |-> returned.anomalies]
    /\ UNCHANGED <<apiVars, detVars, concVars, pline, pentry, lmsg, llevel, ncall>>

\* Windows of the source strategy: the records of each source in each
\* wall-clock hour of the window, the last hour being the one that ends it.
SourceWindows ==
    [1..NumSources -> [1..WindowHours -> {0, 6, 12}]]

\* Line 380: groupby(['source', Grouper(freq='1H')]).size().unstack gives a
\* row for each source that has records and a column for each hour in which
\* some source has records: a pair without records is not a group, and an
\* hour in which no source logged is not a column.
ActivityColumns(w) ==
    {h \in 1..WindowHours : \E s \in 1..NumSources : w[s][h] > 0}

ActivityIndex(w) ==
    {s \in 1..NumSources : \E h \in 1..WindowHours : w[s][h] > 0}

\* The columns of a set in ascending order.
RECURSIVE SortedHours(_)
SortedHours(hs) ==
    IF hs = {} THEN <<>>
    ELSE LET last == CHOOSE h \in hs : \A g \in hs : g <= h
         IN  Append(SortedHours(hs \ {last}), last)

RECURSIVE RowSum(_, _, _)
RowSum(row, columns, n) ==
    IF n = 0 THEN 0 ELSE row[columns[n]] + RowSum(row, columns, n - 1)

\* Lines 387-397 for one source: skipped below 10 records; recent_activity
\* is the sum of the last two columns, historical_avg the mean of the other
\* columns (0 when there are at most two); historical_avg > 5 is
\* sum > 5 * number of those columns.
SourceSilent(w, s) ==
    LET columns == SortedHours(ActivityColumns(w))
        n       == Len(columns)
        total   == RowSum(w[s], columns, n)
        earlier == IF n > 2 THEN RowSum(w[s], columns, n - 2) ELSE 0
    IN  /\ total >= 10
        /\ total - earlier = 0
        /\ n > 2
        /\ earlier > 5 * (n - 2)

RECURSIVE SourceAnomalies(_, _)
SourceAnomalies(w, from) ==
    IF from > NumSources THEN <<>>
    ELSE (IF from \in ActivityIndex(w) /\ SourceSilent(w, from)
          THEN << [anomaly_type |-> "SOURCE_SILENCE", severity |-> "MEDIUM",
                   source |-> from, log_count |-> 0] >>
          ELSE <<>>)
         \o SourceAnomalies(w, from + 1)

\* detect_source_anomalies (lines 372-416).
detect_source_anomalies(w) ==
    IF ActivityIndex(w) = {} THEN <<>> ELSE SourceAnomalies(w, 1)

DetectSource ==
    /\ scall.st = "pending"
    /\ \E w \in SourceWindows :
        scall' = [st |-> "done", strategy |-> "Source", window |-> w,
                  raised |-> FALSE, anomalies |-> detect_source_anomalies(w)]
    /\ UNCHANGED <<apiVars, detVars, concVars, pline, pentry, lmsg, llevel, ncall>>

NextStrategies ==
    \/ DetectVolume
    \/ DetectErrorRate
    \/ DetectNewTemplates
    \/ DetectSource

SpecStrategies == Init /\ [][NextStrategies]_vars

\* ====================================================== the claims
MinerFailurePaths == {"uninit", "raise", "noid"}
Count(S) == Cardinality(S)
OutIdx == 1..Len(outcomes)

\* ---------------------------------------------------------------- C1
UploadFinished(f) == req.file_id # f \/ pc = "done"

\* C1: every created manifest starts 'processing', changes exactly once, to
\* 'completed' or 'failed', and never again; no upload handler finishes
\* (returns or raises) while its manifest is still 'processing'.
C1_StatusChangesOnceBeforeFinish ==
    \A f \in DOMAIN files :
        /\ statusLog[f][1] = "processing"
        /\ Len(statusLog[f]) <= 2
        /\ Len(statusLog[f]) = 2 => statusLog[f][2] \in {"completed", "failed"}
        /\ UploadFinished(f) => files[f].status # "processing"

\* ---------------------------------------------------------------- C2
TemplateIdsInUse == DOMAIN templates \cup {logs[i].template_id : i \in 1..Len(logs)}
StoredCount(t) == IF t \in DOMAIN templates THEN templates[t].count ELSE 0
RecordsWith(t) == Count({i \in 1..Len(logs) : logs[i].template_id = t})

\* C2: after any sequence of upload, single-ingest and fluent-bit operations,
\* for every template_id the count in the templates collection equals the
\* number of persisted records with that template_id.
C2_CounterConsistency ==
    pc \in {"idle", "done"} =>
        \A t \in TemplateIdsInUse : StoredCount(t) = RecordsWith(t)

\* ---------------------------------------------------------------- C3
InUploadLoop ==
    /\ req.kind = "upload"
    /\ pc \in {"u_line", "process", "store", "u_complete", "u_except", "done"}
    /\ req.cause \notin {"manifest", "decode"}
    /\ result # "error400"

StoredOutcomes == SelectSeq(outcomes, LAMBDA o : o.stored)

\* C4: a miner failure (miner uninitialised, add_log_message raises, or no
\* cluster id) never aborts ingestion: the verdict has a non-null template_id
\* (fallback_, error_, tmpl_ or the largest cluster id), the handler goes on
\* to the insert, and the record it inserts carries that template_id.
C4_MinerFailureDegrades ==
    /\ \A i \in OutIdx :
           outcomes[i].path \in MinerFailurePaths =>
               /\ outcomes[i].tid # Nil
               /\ outcomes[i].tid.kind \in {"fallback", "error", "tmpl", "cluster"}
    /\ (pc = "store" /\ req.path \in MinerFailurePaths) =>
           req.verdict.template_id # Nil
    /\ (pc = "done" /\ req.kind = "ingest" /\ result = "error500") =>
           (Len(outcomes) = 1 /\ outcomes[1].tid # Nil)
    /\ pc # "idle" =>
           /\ Len(logs) = Len(snap.logs) + Len(StoredOutcomes)
           /\ \A k \in 1..Len(StoredOutcomes) :
                  logs[Len(snap.logs) + k].template_id = StoredOutcomes[k].tid

\* C4 witness: add_log_message raised and the record was persisted with the
\* error_ pseudo-template.
C4_Witness ==
    /\ pc = "done" /\ result = "ok"
    /\ \E i \in OutIdx :
           /\ outcomes[i].path = "raise" /\ outcomes[i].stored
           /\ outcomes[i].tid.kind = "error"
    /\ \E j \in 1..Len(logs) : logs[j].template_id.kind = "error"

\* ---------------------------------------------------------------- C5
RECURSIVE Collected(_)
Collected(r) ==
    IF r = <<>> THEN <<>>
    ELSE (IF Head(r).outcome.threw THEN <<>> ELSE Head(r).outcome.anomalies)
         \o Collected(Tail(r))

LastStored(n) == SubSeq(anomalies, Len(anomalies) - n + 1, Len(anomalies))

\* C5: in a detection cycle a strategy that throws is skipped and every later
\* strategy still runs; what the other strategies returned is collected and
\* handed to store_anomaly (and is in the collection when no insert failed).
C5_ThrowingStrategySkipped ==
    /\ dpc = "aborted" => ran = <<>>
    /\ dpc \in {"strategies", "store", "done"} =>
           /\ \A i \in 1..Len(ran) : ran[i].name = Detectors[i]
           /\ all_anomalies = Collected(ran)
    /\ dpc \in {"store", "done"} => Len(ran) = Len(Detectors)
    /\ dpc = "done" =>
           /\ attempted = all_anomalies
           /\ dfaults = 0 =>
                  /\ Len(anomalies) >= Len(all_anomalies)
                  /\ LastStored(Len(all_anomalies)) = all_anomalies

\* C5 witness: the first strategy threw, a later one returned an anomaly, and
\* the cycle stored it.
C5_Witness ==
    /\ dpc = "done"
    /\ ran[1].outcome.threw
    /\ \E j \in 2..Len(ran) : ran[j].outcome.anomalies # <<>>
    /\ anomalies = all_anomalies /\ anomalies # <<>>

C7_UpsertPerLine ==
    [][(pc = "process" /\ pc' = "store") =>
          LET tid == req'.verdict.template_id
              ts  == req.entry.ts
          IN  /\ tid \in DOMAIN templates'
              /\ templates'[tid].last_seen = ts
              /\ IF tid \in DOMAIN templates
                 THEN templates'[tid].count = templates[tid].count + 1
                 ELSE templates'[tid].count = 1 /\ templates'[tid].first_seen = ts
      ]_vars

C9_TemplateIdsStable ==
    [][/\ \A t \in DOMAIN issued' : Cardinality(issued'[t]) <= 1
       /\ \A t \in DOMAIN templates :
              t \in DOMAIN templates' /\ templates'[t].template = templates[t].template
      ]_vars

\* ---------------------------------------------------------------- C10
\* C10: within one uploaded file the lines are handled in file order: the
\* verdict and the insertion of line i come before the verdict of line j > i,
\* and the verdict of a line comes before its insertion.
C10_FileOrder ==
    req.kind = "upload" =>
        \A p, q \in 1..Len(trace) :
            p < q =>
                /\ trace[p].pos <= trace[q].pos
                /\ trace[p].pos = trace[q].pos =>
                       (trace[p].ev = "verdict" /\ trace[q].ev = "insert")

\* C10 witness: both lines of a two-line upload got a verdict and were
\* inserted.
C10_Witness ==
    /\ req.kind = "upload" /\ pc = "done" /\ req.nlines = 2
    /\ trace = <<[ev |-> "verdict", pos |-> 1], [ev |-> "insert", pos |-> 1],
                 [ev |-> "verdict", pos |-> 2], [ev |-> "insert", pos |-> 2]>>

\* ---------------------------------------------------------------- C12
\* C12: when the client cancels an upload while it is being handled, the
\* handler marks the manifest 'failed', handles no further line, and keeps
\* the records already inserted for the file.
C12_CancelMarksFailed ==
    (req.kind = "upload" /\ req.cancelled /\ pc = "done") =>
        /\ req.file_id \in DOMAIN files
        /\ files[req.file_id].status = "failed"
        /\ Len(outcomes) = req.cancel_at
        /\ Len(logs) = Len(snap.logs) + Len(StoredOutcomes)

\* ---------------------------------------------------------------- C15
\* C15: whenever the miner gives no id (not initialised, add_log_message
\* raises, or a result without id) the verdict is the fallback_ id of the
\* message, the message itself as template and cluster_size 1, and the miner's
\* tree is left as it was.
C15_FallbackIdOnMinerFailure ==
    [][(pc = "process" /\ pc' = "store" /\ req'.path \in MinerFailurePaths) =>
          /\ req'.verdict = PseudoVerdict(FallbackId(req.entry.msg), req.entry.msg)
          /\ template_miner' = template_miner
      ]_vars

\* ---------------------------------------------------------------- C13
\* C13: when a detection cycle finishes, every anomaly a strategy returned in
\* it is in the anomalies collection: the rows inserted during the cycle are
\* the list run_detection returns, also when an insert fails.
C13_ReturnedAnomaliesStored ==
    dpc = "done" =>
        /\ Len(anomalies) >= Len(all_anomalies)
        /\ LastStored(Len(all_anomalies)) = all_anomalies

C11_MinerCallsSerialized ==
    /\ Cardinality(inCall) <= 1
    /\ inCall \subseteq onLoop
    /\ Cardinality(onLoop) <= 1

\* C11 witness: one handler is inside add_log_message while an upload whose
\* read has finished waits to be resumed with lines left to mine.
C11_Witness ==
    \E h, g \in Handlers :
        /\ h # g
        /\ h \in inCall
        /\ handlers[g].kind = "upload" /\ handlers[g].st = "resumable"
        /\ handlers[g].left > 0

\* ---------------------------------------------------------------- C19
ClassLevel == <<"EMERGENCY", "ALERT", "CRITICAL", "ERROR", "WARN", "INFO", "DEBUG">>
Reversed(q) == [i \in 1..Len(q) |-> q[Len(q) - i + 1]]

\* C19: extract_log_level returns the level of the highest-priority class
\* of severity words present, wherever the words stand; with no severity
\* word, the syslog severity of the first <N>, N mod 8; with neither, ERROR,
\* WARN or DEBUG by heuristic keyword in that order; else INFO.
C19_LevelByFirstApplicableStep ==
    llevel # "pending" =>
        LET classes == {k \in 1..7 : \E i \in 1..Len(lmsg) :
                                         Upper(lmsg[i]) \in LEVEL_PATTERNS[k]}
            pri     == {i \in 1..Len(lmsg) : lmsg[i] \in PriorityWords}
            held    == UNION {KeywordsIn(lmsg[i]) : i \in 1..Len(lmsg)}
        IN  /\ classes # {} =>
                   /\ llevel = ClassLevel[Least(classes)]
                   /\ llevel = extract_log_level(Reversed(lmsg), "INFO")
            /\ (classes = {} /\ pri # {}) =>
                   llevel = severity_map[PriorityValue(lmsg[Least(pri)]) % 8]
            /\ (classes = {} /\ pri = {}) =>
                   llevel = IF held \cap {"ERROR", "FAIL", "EXCEPTION"} # {} THEN "ERROR"
                            ELSE IF held \cap {"ALERT"} # {} THEN "WARN"
                            ELSE IF held \cap {"DEBUG", "TRACE"} # {} THEN "DEBUG"
                            ELSE "INFO"

\* C19 witness: the word of the higher class stands second and wins.
C19_Witness ==
    lmsg = <<"TRACE", "FAIL">> /\ llevel = "ERROR"

\* ---------------------------------------------------------------- C17
\* C17: a line that both the cisco_syslog and the syslog pattern match is
\* tagged cisco_syslog, the registry having cisco_syslog before syslog.
C17_CiscoBeforeSyslog ==
    (/\ pentry # Pending
     /\ pline.kind = "text"
     /\ {"syslog", "cisco_syslog"} \subseteq MatchedBy(pline))
        => (pentry.kind = "entry" /\ pentry.log_type = "cisco_syslog")

\* ---------------------------------------------------------------- C18
\* C18: a severity assigned by a level_map, a captured level or a JSON
\* level/severity field, INFO included, is the severity of the record: no
\* severity derived from the words of the message replaces it.
C18_AssignedSeverityKept ==
    (pentry # Pending /\ pline.kind \in {"json", "text"}) =>
        LET b        == IF pline.kind = "json" THEN JsonBranch(pline)
                        ELSE RegistryBranch(pline)
            assigned == IF pline.kind = "json"
                        THEN {"level", "severity"} \cap DOMAIN b.parsed_fields # {}
                        ELSE "level" \in DOMAIN b.parsed_fields
        IN  (assigned /\ ~pentry.defaulted) => pentry.level = b.level

\* ---------------------------------------------------------------- C16
\* C16: each key of the network map derived from the JSON or registry
\* captures is in the network map of the record with the same value (a
\* numeric protocol under its name of PROTOCOL_MAP), whatever addresses,
\* ports or protocols the message text holds.
C16_CapturedNetworkKept ==
    (pentry # Pending /\ pline.kind \in {"json", "text"}) =>
        LET b     == IF pline.kind = "json" THEN JsonBranch(pline)
                     ELSE RegistryBranch(pline)
            named(k) == IF k = "protocol" /\ b.network_info[k].ty = "str"
                           /\ b.network_info[k].v \in DOMAIN PROTOCOL_MAP
                        THEN Str(PROTOCOL_MAP[b.network_info[k].v])
                        ELSE b.network_info[k]
        IN  ~pentry.defaulted =>
                \A k \in DOMAIN b.network_info :
                    /\ k \in DOMAIN pentry.network_info
                    /\ pentry.network_info[k] = named(k)

\* ---------------------------------------------------------------- C20
\* C20: a line that is a JSON object yields a record tagged json whose
\* parsed fields are the fields of the object, whatever the values of its
\* level, severity, timestamp, time and protocol fields.
C20_JsonObjectTaggedJson ==
    (pentry # Pending /\ pline.kind = "json") =>
        /\ pentry.kind = "entry"
        /\ pentry.log_type = "json"
        /\ pentry.parsed_fields = ObjectFields(pline.obj)

\* ---------------------------------------------------------------- C21
\* C21: a blank line is rejected: parse_enhanced_log_line returns no entry
\* for it, it never reaches the miner or the insert, and the line ends with
\* no record, no verdict and no template row of its own.
C21_BlankLineRejected ==
    /\ parse_enhanced_log_line([kind |-> "blank"]) = Nil
    /\ ParseLine(BlankLine) = Nil
    /\ pc \in {"process", "store"} => ~req.entry.blank
    /\ \A i \in OutIdx :
           ~outcomes[i].parsed =>
               /\ ~outcomes[i].stored
               /\ outcomes[i].tid = Nil
               /\ outcomes[i].path = "none"
               /\ \A j \in 1..Len(trace) : trace[j].pos # outcomes[i].pos
    /\ (/\ req.kind = "upload" /\ pc \in {"u_line", "u_complete", "done"}
        /\ Len(outcomes) = req.nlines
        /\ \A i \in OutIdx : ~outcomes[i].parsed) =>
           (logs = snap.logs /\ templates = snap.templates)

\* C21 witness: the upload of an empty file has finished: its one line was
\* rejected and nothing was stored.
C21_Witness ==
    /\ req.kind = "upload" /\ pc = "done" /\ result = "ok"
    /\ req.nlines = 1 /\ Len(outcomes) = 1 /\ ~outcomes[1].parsed
    /\ files[req.file_id] = Manifest(0, 1, "completed")
    /\ logs = snap.logs /\ templates = snap.templates

C30_ParseNeverRaises ==
    pentry # Pending =>
        /\ pentry.kind \in {"nil", "entry"}
        /\ pentry = Nil <=> pline.kind = "blank"
        /\ pentry.kind = "entry" =>
               LET b == IF pline.kind = "json" THEN JsonBranch(pline)
                        ELSE RegistryBranch(pline)
               IN  /\ (b.raised \/ ~b.message_is_str) => pentry.defaulted
                   /\ pentry.defaulted =>
                          /\ pentry.message = RawWords(pline) /\ pentry.raw_message
                          /\ pentry.level = "INFO"
                          /\ pentry.network_info = EmptyMap
                          /\ pentry.parsed_fields = EmptyMap
                          /\ pentry.metadata = EmptyMap

\* C30 witness: a firewall line whose pattern leaves the protocol group
\* unmatched made `.isdigit()` fail on None, and got the default entry.
C30_Witness ==
    /\ pline.kind = "text" /\ pline.shape = "firewall" /\ pline.msg = <<"ERROR">>
    /\ pentry.kind = "entry" /\ pentry.defaulted /\ pentry.level = "INFO"

\* ---------------------------------------------------------------- C23
\* C23: the ports list of extract_network_info has no duplicates, holds only
\* ports of 1..65535, and lists them in the order of their first occurrence
\* in the message.
C23_PortsInMessageOrder ==
    ncall.st = "done" =>
        LET message == ncall.message
            ports   == IF "ports" \in DOMAIN ncall.info THEN ncall.info["ports"] ELSE <<>>
            FirstAt(port) ==
                Least({i \in 1..Len(message) :
                          \E p \in 1..4 : PortHit(message[i], p) = port})
        IN  /\ \A a, b \in 1..Len(ports) : a # b => ports[a] # ports[b]
            /\ \A a \in 1..Len(ports) : IntOf(ports[a]) \in 1..65535
            /\ \A a, b \in 1..Len(ports) : a < b => FirstAt(ports[a]) < FirstAt(ports[b])

\* ---------------------------------------------------------------- C24
\* C24: with two or more addresses in the message, src_ip is the first,
\* dst_ip the second and there is no ip_address; with one, ip_address is
\* that address and there is no src_ip or dst_ip; ip_addresses lists them
\* all in both cases; with none there is no IP key.
C24_IpKeysByCount ==
    ncall.st = "done" =>
        LET ips    == SelectSeq(ncall.message, LAMBDA w : w \in IpWords)
            info   == ncall.info
            has(k) == k \in DOMAIN info
        IN  /\ Len(ips) >= 2 =>
                   /\ has("src_ip") /\ info["src_ip"] = Str(ips[1])
                   /\ has("dst_ip") /\ info["dst_ip"] = Str(ips[2])
                   /\ ~has("ip_address")
            /\ Len(ips) = 1 =>
                   /\ has("ip_address") /\ info["ip_address"] = Str(ips[1])
                   /\ ~has("src_ip") /\ ~has("dst_ip")
            /\ Len(ips) >= 1 => (has("ip_addresses") /\ info["ip_addresses"] = ips)
            /\ Len(ips) = 0 =>
                   DOMAIN info \cap {"src_ip", "dst_ip", "ip_address", "ip_addresses"} = {}

\* C24 witness: a message of three addresses.
C24_Witness ==
    /\ ncall.st = "done"
    /\ ncall.message = <<"2.2.2.2", "10.0.0.1", "1.1.1.1">>
    /\ ncall.info["src_ip"] = Str("2.2.2.2") /\ ncall.info["dst_ip"] = Str("10.0.0.1")
    /\ ncall.info["ip_addresses"] = ncall.message

\* ---------------------------------------------------------------- C22
\* C22: no persisted record has an event time later than its ingestion
\* time plus the skew bound: a timestamp further in the future is clamped
\* to the ingestion instant.
C22_EventTimeNotInFuture ==
    \A i \in 1..Len(logs) : logs[i].timestamp <= logs[i].created_at

\* ---------------------------------------------------------------- C25
\* C25: for a window of 24 hours, 23 of them with about 10 records and one
\* with 500, the volume strategy returns exactly one anomaly: VOLUME_SPIKE
\* of severity HIGH, for the hour of 500.
C25_OneHighSpike ==
    (scall.st = "done" /\ scall.strategy = "Volume" /\ scall.window.n = 24
     /\ scall.window.spike_at # 0) =>
        /\ Len(scall.anomalies) = 1
        /\ scall.anomalies[1].anomaly_type = "VOLUME_SPIKE"
        /\ scall.anomalies[1].severity = "HIGH"
        /\ scall.anomalies[1].bucket = scall.window.spike_at

\* ---------------------------------------------------------------- C26
\* C26: whatever levels occur in the window, the error-rate strategy
\* returns HIGH_ERROR_RATE for exactly the hours whose rate of
\* ERROR/CRITICAL/FATAL/WARN records is above 0.10 and above twice the mean
\* rate of the earlier hours, CRITICAL when the rate is above 0.5 and HIGH
\* otherwise.
HighRateClaimed(hours, i) ==
    /\ 10 * ErrorLogs(hours[i]) > BucketSize
    /\ ErrorLogs(hours[i]) * (i - 1) > 2 * ErrorLogsUpTo(hours, i - 1)

C26_HighErrorRatePerBucket ==
    (scall.st = "done" /\ scall.strategy = "ErrorRate") =>
        \A i \in 1..Len(scall.window) :
            /\ HighRateClaimed(scall.window, i) <=>
                    \E k \in 1..Len(scall.anomalies) : scall.anomalies[k].bucket = i
            /\ \A k \in 1..Len(scall.anomalies) :
                    scall.anomalies[k].bucket = i =>
                        /\ scall.anomalies[k].anomaly_type = "HIGH_ERROR_RATE"
                        /\ scall.anomalies[k].severity =
                            (IF 2 * ErrorLogs(scall.window[i]) > BucketSize
                             THEN "CRITICAL" ELSE "HIGH")

\* ---------------------------------------------------------------- C27
\* C27: when all records of the window carry one single template id, the
\* new-template strategy returns no anomaly.
C27_SingleTemplateNoSurge ==
    (scall.st = "done" /\ scall.strategy = "NewTemplates"
     /\ scall.window.total = 1) =>
        scall.anomalies = <<>>

\* ---------------------------------------------------------------- C28
\* C28: the source strategy returns one SOURCE_SILENCE anomaly of severity
\* MEDIUM for a source exactly when the source has no record in the two
\* wall-clock hours that end the window and the mean hourly count of its
\* earlier hours is above 5, whatever the other sources did.
SilenceClaimed(w, s) ==
    /\ w[s][WindowHours - 1] + w[s][WindowHours] = 0
    /\ SumOver(w[s], 1, WindowHours - 2) > 5 * (WindowHours - 2)

C28_SilenceOfLastTwoHours ==
    (scall.st = "done" /\ scall.strategy = "Source") =>
        \A s \in 1..NumSources :
            /\ SilenceClaimed(scall.window, s) <=>
                    \E k \in 1..Len(scall.anomalies) : scall.anomalies[k].source = s
            /\ Cardinality({k \in 1..Len(scall.anomalies) :
                                scall.anomalies[k].source = s}) <= 1
            /\ \A k \in 1..Len(scall.anomalies) :
                    /\ scall.anomalies[k].anomaly_type = "SOURCE_SILENCE"
                    /\ scall.anomalies[k].severity = "MEDIUM"

====
